---- MODULE Spec2Model ----
(***************************************************************************)
(* The joint command pipeline of the robot-arm controller.                 *)
(*                                                                         *)
(* Two controller variants live in the repository and are modelled side    *)
(* by side, selected by the variable `variant`:                            *)
(*   "smooth"  src/hooks/use-robot-controller.tsx  (desired / smoothed     *)
(*             targets, a 33 ms smoothing loop, 100 ms send throttle)      *)
(*   "direct"  src/unnamed/part_000                (every input is sent    *)
(*             at once, 50 ms send throttle)                               *)
(*                                                                         *)
(* Units.  Angles are integers in thousandths of a degree, so that         *)
(* toFixed(1) (rounding to a multiple of 100) and the 0.01 degree          *)
(* threshold (10) are both visible.  smoothingFactor and gyroScale are in  *)
(* hundredths.  Times are in milliseconds.  Date.now() is kept only        *)
(* through the two differences the code takes of it: sinceLastSend         *)
(* (now - lastSendRef.current) and the homing animation's elapsed time     *)
(* (now - startTime), each saturated where the code stops distinguishing.  *)
(*                                                                         *)
(* React.  One action is one callback run to completion followed by the    *)
(* re-render and the effects it triggers.  A callback therefore reads the  *)
(* state of the latest render, except for the long-lived closures that the *)
(* code keeps across renders; what those captured is state of the model    *)
(* (homeAnimationRef.status, snapshotSend, sockets[s].url, timers).        *)
(***************************************************************************)
EXTENDS Integers, Sequences, FiniteSets, Bags, TLC

\* ---------------------------------------------------------------------
\* Bounds of the model
\* ---------------------------------------------------------------------
MaxSockets == 4
MaxRetrySockets == 6
MaxLinkSockets == 3
MaxBoundsSockets == 1
MaxClosureSockets == 3
MaxProgramSockets == 3
MaxRefused == 7
MaxFaults == 3
MaxHomeSockets == 1
MaxGyroSockets == 1
MaxLifeSockets == 3
MaxSettleSockets == 1
MaxPersistSockets == 3
MaxClears == 2
MaxProgramItems == 4
MaxTimelineMs == 2000

\* ---------------------------------------------------------------------
\* Program constants
\* ---------------------------------------------------------------------
JOINTS == {"base", "armA", "armB", "wristA", "wristB", "gripper"}

defaultConfigs ==
  [base    |-> [min |-> 0,      max |-> 180000, home |-> 90000],
   armA    |-> [min |-> 20000,  max |-> 180000, home |-> 180000],
   armB    |-> [min |-> 0,      max |-> 180000, home |-> 180000],
   wristA  |-> [min |-> 0,      max |-> 180000, home |-> 90000],
   wristB  |-> [min |-> 0,      max |-> 180000, home |-> 90000],
   gripper |-> [min |-> 100000, max |-> 180000, home |-> 180000]]

defaultAngles == [j \in JOINTS |-> defaultConfigs[j].home]

defaultSettings ==
  [wsAddress |-> "", gyroEnabled |-> FALSE, gyroScale |-> 70,
   gyroPitchJoint |-> "armA", gyroRollJoint |-> "base",
   smoothingEnabled |-> TRUE, smoothingFactor |-> 15]

SEND_INTERVAL_SMOOTH == 100
SEND_INTERVAL_DIRECT == 50
HOME_DURATION == 1000
baseDelay == 1000
maxDelay == 10000

NoSocket == 0
NoProgram == <<>>
NoPose == [type |-> "none"]
NoDocument == [type |-> "none"]

defaultTiles ==
  <<[id |-> "tile-base", type |-> "slider", joint |-> "base"],
    [id |-> "tile-arm-a", type |-> "slider", joint |-> "armA"],
    [id |-> "tile-arm-b", type |-> "slider", joint |-> "armB"],
    [id |-> "tile-wrist-a", type |-> "slider", joint |-> "wristA"],
    [id |-> "tile-wrist-b", type |-> "slider", joint |-> "wristB"],
    [id |-> "tile-gripper", type |-> "slider", joint |-> "gripper"],
    [id |-> "tile-gyro", type |-> "gyro", joint |-> "base"]>>

\* ---------------------------------------------------------------------
\* Pure helpers
\* ---------------------------------------------------------------------
Min2(a, b) == IF a <= b THEN a ELSE b
Max2(a, b) == IF a >= b THEN a ELSE b
Abs(a) == IF a < 0 THEN -a ELSE a

\* function clamp(value, min, max) { return Math.min(Math.max(value, min), max) }
clamp(value, min, max) == Min2(Max2(value, min), max)

\* Number(x.toFixed(1)) for x = num/den thousandths of a degree (den > 0):
\* the multiple of 100 nearest to the exact value of the double x.  Where
\* num/den lies halfway between two multiples, the double computed for it
\* lies on either side or on the tie itself, so both neighbours are outcomes.
toFixed1Ratio(num, den) ==
  LET mag == Abs(num)
      k == mag \div (100 * den)
      r == mag - k * (100 * den)
      sign == IF num < 0 THEN -1 ELSE 1
  IN IF 2 * r < 100 * den THEN {sign * 100 * k}
     ELSE IF 2 * r > 100 * den THEN {sign * 100 * (k + 1)}
     ELSE {sign * 100 * k, sign * 100 * (k + 1)}

\* Number(x.toFixed(1)) for x a whole number of thousandths: the outcomes of
\* the rounding, two when x is halfway between two multiples of 0.1.
toFixed1(x) == toFixed1Ratio(x, 1)

\* Number(x.toFixed(1)) for x = whole + f thousandths, 0 <= f < 1, with
\* exact telling whether f = 0.
toFixed1Parts(whole, exact) ==
  LET m == whole \div 100
      r == whole % 100
  IN IF r < 50 THEN {100 * m}
     ELSE IF r > 50 \/ ~exact THEN {100 * (m + 1)}
     ELSE {100 * m, 100 * (m + 1)}

\* the poses whose angle of joint j is one of outcomes[j]
PoseChoices(outcomes) ==
  {[base |-> b, armA |-> a1, armB |-> a2, wristA |-> w1, wristB |-> w2, gripper |-> g] :
     b \in outcomes["base"], a1 \in outcomes["armA"], a2 \in outcomes["armB"],
     w1 \in outcomes["wristA"], w2 \in outcomes["wristB"], g \in outcomes["gripper"]}

RECURSIVE pow2(_)
pow2(n) == IF n <= 0 THEN 1 ELSE 2 * pow2(n - 1)

\* Math.min(baseDelay * Math.pow(2, attempt), maxDelay)
\* getReconnectDelay without the Math.min cap
getReconnectDelayUncapped(attempt) == baseDelay * pow2(attempt)

getReconnectDelay(attempt) == Min2(baseDelay * pow2(attempt), maxDelay)

\* startsWith("ws://") || startsWith("wss://"), on the addresses of the model
ValidScheme(addr) == addr \in {"ws://a", "ws://b", "wss://c"}

VARIABLES
  variant,              \* which controller file runs
  jointConfigs,         \* useState jointConfigs
  jointAngles,          \* useState jointAngles
  desiredAnglesRef,     \* smooth only
  smoothedAnglesRef,    \* smooth only
  settings,             \* useState settings
  gyroCalibration,      \* useState gyroCalibration
  lastMotion,           \* useRef lastMotion
  snapshotSend,         \* direct only: connectionStatus captured by latestSnapshot.current.sendPayload ("noop": the initial () => {})
  isEmergencyStoppedRef,
  connectionStatus,
  reconnectAttempts,
  reconnectTimeoutRef,  \* id of the timer held by the ref, 0 = null
  timers,               \* pending setTimeout callbacks of the reconnect cycle
  shouldReconnectRef,
  socketRef,            \* index into sockets, 0 = null
  sockets,              \* every WebSocket created so far
  effectWs,             \* the ws captured by the address effect's cleanup, 0 = none / null
  sinceLastSend,        \* Date.now() - lastSendRef.current, saturated
  sinceLastPose,        \* time since a pose was last written to a transport, saturated
  poseWriteFailed,      \* a pose write threw and the status has not been connected since
  lastPose,             \* the joint angles of the pose last written to a transport, or NoPose
  homeAnimationRef,     \* the running homing interval with what its closure captured, or NoPose
  homeAllStatus,        \* direct only: connectionStatus captured by the memoized homeAll's sendPayload
  mounted,              \* the provider is mounted (its effects have not been cleaned up)
  persistTimer,         \* persistTimer.current holds a pending setTimeout
  storedDocument,       \* the content of STORAGE_FILE, or NoDocument
  loadPhase,            \* position of the load-on-start effect's async function
  clearPhase,           \* the calls of clearSavedSettings in flight: how many await getInfoAsync, how many deleteAsync
  controlTiles,         \* useState controlTiles
  defaultsHeld,         \* direct only: jointConfigs and jointAngles are the objects defaultConfigs and defaultAngles themselves
  programs,             \* ProgramsProvider: the programs, a bag of [id, waypoints]
                        \* (the array's order follows name and updatedAt, not tracked)
  activeProgramId,      \* ProgramsProvider: the selected program's id or NoProgram
  refreshPhase,         \* ProgramsProvider: position of refreshPrograms' async function ("idle": loadingRef.current is false)
  sent,                 \* the messages the last step wrote to a transport
  last                  \* the last operation and its input

vars == <<variant, jointConfigs, jointAngles, desiredAnglesRef, smoothedAnglesRef,
          settings, gyroCalibration, lastMotion, snapshotSend,
          isEmergencyStoppedRef, connectionStatus, reconnectAttempts,
          reconnectTimeoutRef, timers, shouldReconnectRef, socketRef, sockets,
          effectWs, sinceLastSend, sinceLastPose, poseWriteFailed, lastPose,
          homeAnimationRef, homeAllStatus, mounted, persistTimer, storedDocument,
          loadPhase, clearPhase, controlTiles, defaultsHeld, programs,
          activeProgramId, refreshPhase, sent,
          last>>

SEND_INTERVAL == IF variant = "smooth" THEN SEND_INTERVAL_SMOOTH ELSE SEND_INTERVAL_DIRECT

\* The state after the first render and its effects, with `document` in
\* STORAGE_FILE: the persist effect has scheduled its first save, the load
\* effect has started its async function and the ProgramsProvider's effect
\* has called refreshPrograms.
Boot(document) ==
  /\ variant \in {"smooth", "direct"}
  /\ mounted = TRUE
  /\ persistTimer = TRUE
  /\ storedDocument = document
  /\ loadPhase = "getInfo"
  /\ clearPhase = [getInfo |-> 0, delete |-> 0]
  /\ controlTiles = defaultTiles
  /\ defaultsHeld = TRUE
  /\ programs = EmptyBag
  /\ activeProgramId = NoProgram
  /\ refreshPhase = "files"
  /\ jointConfigs = defaultConfigs
  /\ jointAngles = defaultAngles
  /\ desiredAnglesRef = defaultAngles
  /\ smoothedAnglesRef = defaultAngles
  /\ settings = defaultSettings
  /\ gyroCalibration = [pitch |-> 0, roll |-> 0]
  /\ lastMotion = [pitch |-> 0, roll |-> 0]
  /\ snapshotSend = "noop"
  /\ isEmergencyStoppedRef = FALSE
  /\ connectionStatus = "disconnected"
  /\ reconnectAttempts = 0
  /\ reconnectTimeoutRef = 0
  /\ timers = {}
  /\ shouldReconnectRef = FALSE
  /\ socketRef = NoSocket
  /\ sockets = <<>>
  /\ effectWs = NoSocket
  /\ sinceLastSend = SEND_INTERVAL_SMOOTH
  /\ sinceLastPose = SEND_INTERVAL_SMOOTH
  /\ poseWriteFailed = FALSE
  /\ lastPose = NoPose
  /\ homeAnimationRef = NoPose
  /\ homeAllStatus = "disconnected"
  /\ sent = <<>>
  /\ last = [op |-> "init"]

Init == Boot(NoDocument)

\* ---------------------------------------------------------------------
\* Transport
\* ---------------------------------------------------------------------
PoseMsg(angles) == [type |-> "pose", angles |-> angles, sock |-> socketRef]

\* WebSocket.send on socket s: throws while the socket is CONNECTING, is
\* written while it is OPEN, and is dropped without an error otherwise.
\* a send that never throws
SocketSendSilent(s, msg) ==
  [msgs  |-> IF sockets[s].readyState = "OPEN" THEN <<msg>> ELSE <<>>,
   threw |-> FALSE]

SocketSend(s, msg) ==
  [msgs  |-> IF sockets[s].readyState = "OPEN" THEN <<msg>> ELSE <<>>,
   threw |-> sockets[s].readyState = "CONNECTING"]

\* sendPayload(angles) as created by a render whose connectionStatus was
\* `status`; the result is what the call does to lastSendRef, to the
\* transport and to connectionStatus.
sendPayloadUngated(angles, status) ==
  IF sinceLastSend < SEND_INTERVAL
  THEN [since |-> sinceLastSend, msgs |-> <<>>, status |-> connectionStatus]
  ELSE IF socketRef # NoSocket /\ status = "connected"
       THEN LET r == SocketSend(socketRef, PoseMsg(angles))
            IN [since |-> 0, msgs |-> r.msgs, threw |-> r.threw,
                status |-> IF r.threw THEN "error" ELSE connectionStatus]
       ELSE [since |-> 0, msgs |-> <<>>, status |-> connectionStatus]

sendPayload(angles, status) ==
  IF isEmergencyStoppedRef
  THEN [since |-> sinceLastSend, msgs |-> <<>>, status |-> connectionStatus]
  ELSE IF sinceLastSend < SEND_INTERVAL
  THEN [since |-> sinceLastSend, msgs |-> <<>>, status |-> connectionStatus]
  ELSE IF socketRef # NoSocket /\ status = "connected"
       THEN LET r == SocketSend(socketRef, PoseMsg(angles))
            IN [since |-> 0, msgs |-> r.msgs, threw |-> r.threw,
                status |-> IF r.threw THEN "error" ELSE connectionStatus]
       ELSE [since |-> 0, msgs |-> <<>>, status |-> connectionStatus]

\* the pose messages among msgs
Poses(msgs) == {i \in 1..Len(msgs) : msgs[i].type = "pose"}

NoSend == [since |-> sinceLastSend, msgs |-> <<>>, status |-> connectionStatus]

\* What a callback's writes do to the state, and the closures the following
\* re-render refreshes: anglesChanged / configChanged re-memoize homeAll
\* (deps [jointConfigs, jointAngles]); settingsChanged / configChanged re-run
\* the latestSnapshot effect, which reads sendPayloadRef.current before the
\* sendPayloadRef effect of the same commit updates it.
Commit(r, anglesChanged, configChanged, settingsChanged) ==
  /\ sinceLastSend' = r.since
  /\ sinceLastPose' = IF Poses(r.msgs) # {} THEN 0 ELSE sinceLastPose
  /\ poseWriteFailed' = (poseWriteFailed \/ ("threw" \in DOMAIN r /\ r.threw))
  /\ lastPose' = IF Poses(r.msgs) # {} THEN r.msgs[1].angles ELSE lastPose
  /\ sent' = r.msgs
  /\ connectionStatus' = r.status
  /\ homeAllStatus' = IF variant = "direct" /\ (anglesChanged \/ configChanged)
                      THEN r.status ELSE homeAllStatus
  /\ snapshotSend' = IF variant = "direct" /\ (settingsChanged \/ configChanged)
                     THEN connectionStatus ELSE snapshotSend
  /\ persistTimer' = (persistTimer \/ settingsChanged \/ configChanged)
  /\ defaultsHeld' = IF variant = "direct" /\ (anglesChanged \/ configChanged)
                     THEN FALSE ELSE defaultsHeld
  /\ UNCHANGED <<mounted, storedDocument, loadPhase, clearPhase, controlTiles, programs, activeProgramId, refreshPhase>>

ConnUnchanged == UNCHANGED <<reconnectAttempts, reconnectTimeoutRef, timers,
                             shouldReconnectRef, socketRef, sockets, effectWs>>

\* ---------------------------------------------------------------------
\* Joint State Store
\* ---------------------------------------------------------------------
\* a reclamp that sends an out-of-range angle to the joint's home
ReclampToHome(angles, configs) ==
  [j \in JOINTS |->
     IF configs[j].min <= angles[j] /\ angles[j] <= configs[j].max
     THEN angles[j] ELSE configs[j].home]

\* The reclamp effect that follows every change of jointConfigs.
Reclamp(angles, configs) ==
  [j \in JOINTS |-> clamp(angles[j], configs[j].min, configs[j].max)]

\* mergeConfig without the min/max exchange
mergeConfigUnordered(existing, config) ==
  LET min == IF "min" \in DOMAIN config THEN config.min ELSE existing.min
      max == IF "max" \in DOMAIN config THEN config.max ELSE existing.max
      rawHome == IF "home" \in DOMAIN config THEN config.home ELSE existing.home
  IN [min |-> min, max |-> max, home |-> clamp(rawHome, min, max)]

mergeConfig(existing, config) ==
  LET rawMin == IF "min" \in DOMAIN config THEN config.min ELSE existing.min
      rawMax == IF "max" \in DOMAIN config THEN config.max ELSE existing.max
      min == Min2(rawMin, rawMax)
      max == Max2(rawMin, rawMax)
      rawHome == IF "home" \in DOMAIN config THEN config.home ELSE existing.home
  IN [min |-> min, max |-> max, home |-> clamp(rawHome, min, max)]

SetJointConfig(joint, config) ==
  /\ jointConfigs' = [jointConfigs EXCEPT ![joint] = mergeConfig(@, config)]
  /\ jointAngles' = Reclamp(jointAngles, jointConfigs')
  /\ Commit(NoSend, jointAngles' # jointAngles, TRUE, FALSE)
  /\ last' = [op |-> "setJointConfig", joint |-> joint, config |-> config]
  /\ ConnUnchanged
  /\ UNCHANGED <<variant, desiredAnglesRef, smoothedAnglesRef, settings,
                 gyroCalibration, lastMotion, isEmergencyStoppedRef, homeAnimationRef>>

\* limitAngle without the toFixed(1)
limitAngleUnrounded(angle, config) == {clamp(angle, config.min, config.max)}

\* Number(clamp(angle, config.min, config.max).toFixed(1)): the outcomes
limitAngle(angle, config) == toFixed1(clamp(angle, config.min, config.max))

UpdateJoint(joint, angle) ==
  \E rounded \in limitAngle(angle, jointConfigs[joint]) :
  LET next == [jointAngles EXCEPT ![joint] = rounded]
  IN /\ jointAngles' = next
     /\ IF variant = "smooth"
        THEN /\ desiredAnglesRef' = [desiredAnglesRef EXCEPT ![joint] = rounded]
             /\ Commit(NoSend, TRUE, FALSE, FALSE)
        ELSE /\ UNCHANGED desiredAnglesRef
             /\ Commit(sendPayload(next, connectionStatus), TRUE, FALSE, FALSE)
     /\ last' = [op |-> "updateJoint", joint |-> joint, angle |-> angle]
     /\ ConnUnchanged
     /\ UNCHANGED <<variant, jointConfigs, smoothedAnglesRef, settings,
                    gyroCalibration, lastMotion, isEmergencyStoppedRef, homeAnimationRef>>

\* poseTarget that reads a missing entry as 0 instead of the fallback
poseTargetZeroFill(pose, fallback) ==
  PoseChoices([j \in JOINTS |->
     limitAngle(IF pose[j].finite THEN pose[j].value ELSE 0, jointConfigs[j])])

\* A pose as goToPose receives it: pose[j].finite is Number.isFinite(Number(pose[j])),
\* FALSE for a missing or non-numeric entry.
poseTarget(pose, fallback) ==
  PoseChoices([j \in JOINTS |->
     limitAngle(IF pose[j].finite THEN pose[j].value ELSE fallback[j], jointConfigs[j])])

GoToPose(pose) ==
  \E next \in poseTarget(pose, IF variant = "smooth" THEN desiredAnglesRef ELSE jointAngles) :
     /\ jointAngles' = next
     /\ IF variant = "smooth"
        THEN /\ desiredAnglesRef' = next
             /\ Commit(NoSend, TRUE, FALSE, FALSE)
        ELSE /\ UNCHANGED desiredAnglesRef
             /\ Commit(sendPayload(next, connectionStatus), TRUE, FALSE, FALSE)
     /\ last' = [op |-> "goToPose", pose |-> pose]
     /\ ConnUnchanged
     /\ UNCHANGED <<variant, jointConfigs, smoothedAnglesRef, settings,
                    gyroCalibration, lastMotion, isEmergencyStoppedRef, homeAnimationRef>>

\* ---------------------------------------------------------------------
\* Homing
\* ---------------------------------------------------------------------
homeTargets == [j \in JOINTS |-> jointConfigs[j].home]

HomeAll ==
  /\ homeAnimationRef' = [type |-> "home", startAngles |-> jointAngles,
                          targetAngles |-> homeTargets, elapsed |-> 0,
                          status |-> homeAllStatus]
  /\ desiredAnglesRef' = IF variant = "smooth" THEN homeTargets ELSE desiredAnglesRef
  /\ Commit(NoSend, FALSE, FALSE, FALSE)
  /\ last' = [op |-> "homeAll"]
  /\ ConnUnchanged
  /\ UNCHANGED <<variant, jointConfigs, jointAngles, smoothedAnglesRef, settings,
                 gyroCalibration, lastMotion, isEmergencyStoppedRef>>

\* Number((start + (end - start) * eased).toFixed(1)) with
\* eased = 1 - Math.pow(1 - progress, 3), progress = Math.min(elapsed / duration, 1),
\* for elapsed in whole milliseconds: the outcomes.  With q = duration - elapsed
\* and n = duration the value is end - (end - start) * q^3 / n^3; the quotient
\* |end - start| * q^3 / n^3 = whole part + remainder is taken one factor q / n
\* at a time, which keeps every product within 32 bits.
homeFrame(start, end, elapsed) ==
  LET n == HOME_DURATION
      q == n - Min2(elapsed, n)
      d == end - start
      p1 == Abs(d) * q
      p2 == (p1 \div n) * q
      p3 == (p2 \div n) * q
      low == (p1 % n) * q * q
      carry == (p3 % n) * n + (p2 % n) * q + (low \div n)
      quot == (p3 \div n) + (carry \div (n * n))
      exact == (carry % (n * n) = 0) /\ (low % n = 0)
      whole == IF d < 0 THEN end + quot
               ELSE IF exact THEN end - quot ELSE end - quot - 1
  IN toFixed1Parts(whole, exact)

HomeFrame ==
  /\ homeAnimationRef # NoPose
  /\ homeAnimationRef.elapsed > 0
  /\ LET h == homeAnimationRef
         frames == PoseChoices([j \in JOINTS |->
                      homeFrame(h.startAngles[j], h.targetAngles[j], h.elapsed)])
     IN /\ \E next \in frames :
             /\ jointAngles' = next
             /\ IF variant = "smooth"
                THEN /\ smoothedAnglesRef' = next
                     /\ Commit(NoSend, TRUE, FALSE, FALSE)
                ELSE /\ UNCHANGED smoothedAnglesRef
                     /\ Commit(sendPayload(next, h.status), TRUE, FALSE, FALSE)
        /\ homeAnimationRef' = IF h.elapsed >= HOME_DURATION THEN NoPose ELSE h
  /\ last' = [op |-> "homeFrame"]
  /\ ConnUnchanged
  /\ UNCHANGED <<variant, jointConfigs, desiredAnglesRef, settings,
                 gyroCalibration, lastMotion, isEmergencyStoppedRef>>

\* ---------------------------------------------------------------------
\* Smoothing loop (smooth variant)
\* ---------------------------------------------------------------------
SNAP_EPSILON == 10

\* One joint of the tick: the outcomes.  Math.abs(diff) < 0.01 is a test on
\* doubles; where the two angles are exactly 0.01 apart the difference the
\* code computes lies on either side of 0.01, so both branches are outcomes.
smoothStep(current, target, enabled, factor) ==
  LET diff == target - current
      moved == IF enabled /\ factor < 100
               THEN toFixed1Ratio(current * 100 + diff * factor, 100)
               ELSE {target}
  IN IF Abs(diff) < SNAP_EPSILON THEN {target}
     ELSE IF Abs(diff) = SNAP_EPSILON THEN {target} \cup moved
     ELSE moved

smoothNext ==
  PoseChoices([j \in JOINTS |-> smoothStep(smoothedAnglesRef[j], desiredAnglesRef[j],
                                           settings.smoothingEnabled, settings.smoothingFactor)])

\* The interval callback; the interval exists while the provider is mounted.
\* Math.abs(next - smoothed) > 0.01 is again a test on doubles: a step of
\* exactly 0.01 is sent or not.
SmoothTick ==
  /\ variant = "smooth"
  /\ mounted
  /\ IF isEmergencyStoppedRef
     THEN /\ UNCHANGED smoothedAnglesRef
          /\ Commit(NoSend, FALSE, FALSE, FALSE)
     ELSE \E next \in smoothNext :
             /\ smoothedAnglesRef' = next
             /\ IF \E j \in JOINTS : Abs(next[j] - smoothedAnglesRef[j]) > SNAP_EPSILON
                THEN Commit(sendPayload(next, connectionStatus), FALSE, FALSE, FALSE)
                ELSE IF \E j \in JOINTS : Abs(next[j] - smoothedAnglesRef[j]) = SNAP_EPSILON
                THEN \/ Commit(sendPayload(next, connectionStatus), FALSE, FALSE, FALSE)
                     \/ Commit(NoSend, FALSE, FALSE, FALSE)
                ELSE Commit(NoSend, FALSE, FALSE, FALSE)
  /\ last' = [op |-> "tick"]
  /\ ConnUnchanged
  /\ UNCHANGED <<variant, jointConfigs, jointAngles, desiredAnglesRef, settings,
                 gyroCalibration, lastMotion, isEmergencyStoppedRef, homeAnimationRef>>

\* ---------------------------------------------------------------------
\* Safety interlock
\* ---------------------------------------------------------------------
Held(status) == socketRef # NoSocket /\ status = "connected"

\* an emergencyStop that reports a failed stop write as a connection error
EmergencyStopReportsError ==
  /\ LET r == IF Held(connectionStatus)
              THEN SocketSend(socketRef, [type |-> "emergencyStop", sock |-> socketRef])
              ELSE [msgs |-> <<>>, threw |-> FALSE]
     IN /\ Commit([since |-> sinceLastSend, msgs |-> r.msgs,
                   status |-> IF r.threw THEN "error" ELSE connectionStatus],
                  FALSE, FALSE, TRUE)
        /\ last' = [op |-> "emergencyStop", held |-> Held(connectionStatus),
                    threw |-> r.threw]
  /\ settings' = [settings EXCEPT !.gyroEnabled = FALSE]
  /\ isEmergencyStoppedRef' = TRUE
  /\ IF variant = "smooth"
     THEN desiredAnglesRef' = jointAngles /\ smoothedAnglesRef' = jointAngles
     ELSE UNCHANGED <<desiredAnglesRef, smoothedAnglesRef>>
  /\ ConnUnchanged
  /\ UNCHANGED <<variant, jointConfigs, jointAngles, gyroCalibration, lastMotion,
                 homeAnimationRef>>

EmergencyStop ==
  /\ LET r == IF Held(connectionStatus)
              THEN SocketSend(socketRef, [type |-> "emergencyStop", sock |-> socketRef])
              ELSE [msgs |-> <<>>, threw |-> FALSE]
     IN /\ Commit([since |-> sinceLastSend, msgs |-> r.msgs, status |-> connectionStatus],
                  FALSE, FALSE, TRUE)
        /\ last' = [op |-> "emergencyStop", held |-> Held(connectionStatus),
                    threw |-> r.threw]
  /\ settings' = [settings EXCEPT !.gyroEnabled = FALSE]
  /\ isEmergencyStoppedRef' = TRUE
  /\ IF variant = "smooth"
     THEN desiredAnglesRef' = jointAngles /\ smoothedAnglesRef' = jointAngles
     ELSE UNCHANGED <<desiredAnglesRef, smoothedAnglesRef>>
  /\ ConnUnchanged
  /\ UNCHANGED <<variant, jointConfigs, jointAngles, gyroCalibration, lastMotion,
                 homeAnimationRef>>

\* the resume write that ignores a failed write
resumeSendIgnoresFailure ==
  IF Held(connectionStatus)
  THEN LET r == SocketSend(socketRef, PoseMsg(jointAngles))
       IN [since |-> sinceLastSend, msgs |-> r.msgs, threw |-> r.threw,
           status |-> connectionStatus]
  ELSE NoSend

resumeSend ==
  IF Held(connectionStatus)
  THEN LET r == SocketSend(socketRef, PoseMsg(jointAngles))
       IN [since |-> sinceLastSend, msgs |-> r.msgs, threw |-> r.threw,
           status |-> IF r.threw THEN "error" ELSE connectionStatus]
  ELSE NoSend

ResumeAfterStop ==
  /\ isEmergencyStoppedRef' = FALSE
  /\ IF variant = "smooth"
     THEN desiredAnglesRef' = jointAngles /\ smoothedAnglesRef' = jointAngles
     ELSE UNCHANGED <<desiredAnglesRef, smoothedAnglesRef>>
  /\ Commit(resumeSend, FALSE, FALSE, FALSE)
  /\ last' = [op |-> "resumeAfterStop", held |-> Held(connectionStatus),
              wasStopped |-> isEmergencyStoppedRef]
  /\ ConnUnchanged
  /\ UNCHANGED <<variant, jointConfigs, jointAngles, settings, gyroCalibration,
                 lastMotion, homeAnimationRef>>

\* sendProgramRun(program); the program is an opaque payload.
SendProgramRun ==
  /\ IF ~Held(connectionStatus)
     THEN /\ Commit(NoSend, FALSE, FALSE, FALSE)
          /\ UNCHANGED settings
          /\ last' = [op |-> "sendProgramRun", held |-> FALSE, ok |-> FALSE]
     ELSE LET r == SocketSend(socketRef, [type |-> "program", sock |-> socketRef])
              gyroOff == variant = "direct" /\ settings.gyroEnabled
          IN /\ settings' = IF gyroOff THEN [settings EXCEPT !.gyroEnabled = FALSE]
                            ELSE settings
             /\ Commit([since |-> sinceLastSend, msgs |-> r.msgs,
                        status |-> IF r.threw THEN "error" ELSE connectionStatus],
                       FALSE, FALSE, gyroOff)
             /\ last' = [op |-> "sendProgramRun", held |-> TRUE, ok |-> ~r.threw]
  /\ ConnUnchanged
  /\ UNCHANGED <<variant, jointConfigs, jointAngles, desiredAnglesRef, smoothedAnglesRef,
                 gyroCalibration, lastMotion, isEmergencyStoppedRef, homeAnimationRef>>

\* ---------------------------------------------------------------------
\* Time
\* ---------------------------------------------------------------------
Elapse(dt) ==
  /\ sinceLastSend' = Min2(sinceLastSend + dt, SEND_INTERVAL_SMOOTH)
  /\ sinceLastPose' = Min2(sinceLastPose + dt, SEND_INTERVAL_SMOOTH)
  /\ homeAnimationRef' =
       IF homeAnimationRef = NoPose THEN NoPose
       ELSE [homeAnimationRef EXCEPT !.elapsed = Min2(@ + dt, HOME_DURATION)]
  /\ \/ sinceLastSend' # sinceLastSend
     \/ sinceLastPose' # sinceLastPose
     \/ homeAnimationRef' # homeAnimationRef
  /\ sent' = <<>>
  /\ last' = [op |-> "elapse"]
  /\ ConnUnchanged
  /\ UNCHANGED <<variant, jointConfigs, jointAngles, desiredAnglesRef, smoothedAnglesRef,
                 settings, gyroCalibration, lastMotion, snapshotSend, isEmergencyStoppedRef,
                 connectionStatus, homeAllStatus, poseWriteFailed, lastPose,
                 mounted, persistTimer, storedDocument, loadPhase, clearPhase, controlTiles, defaultsHeld, programs, activeProgramId, refreshPhase>>

\* ---------------------------------------------------------------------
\* Connection Manager
\* ---------------------------------------------------------------------
\* ws.close(): CONNECTING / OPEN become CLOSING; the close event follows later.
closeSocket(socks, s) ==
  IF s # NoSocket /\ socks[s].readyState \in {"CONNECTING", "OPEN"}
  THEN [socks EXCEPT ![s].readyState = "CLOSING"]
  ELSE socks

clearReconnectTimeout == {t \in timers : t.id # reconnectTimeoutRef}

\* The address effect re-run for the new address: the cleanup of the previous
\* run (registered when the previous address was not empty), then the body.
\* `opens` is the outcome of new WebSocket(addr) in connectWebSocket: FALSE
\* when the constructor throws and the catch sets the status to error.
AddressEffectWith(addr, opens) ==
  LET hadCleanup == settings.wsAddress # ""
      socks1 == IF hadCleanup THEN closeSocket(sockets, effectWs) ELSE sockets
      ref1 == IF hadCleanup /\ socketRef = effectWs THEN NoSocket ELSE socketRef
  IN /\ timers' = clearReconnectTimeout
     /\ reconnectTimeoutRef' = 0
     /\ reconnectAttempts' = 0
     /\ IF addr = ""
        THEN /\ shouldReconnectRef' = FALSE
             /\ sockets' = closeSocket(socks1, ref1)
             /\ socketRef' = NoSocket
             /\ effectWs' = NoSocket
             /\ connectionStatus' = "disconnected"
        ELSE /\ shouldReconnectRef' = TRUE
             /\ IF ~ValidScheme(addr) \/ ~opens
                THEN /\ sockets' = socks1
                     /\ socketRef' = ref1
                     /\ effectWs' = NoSocket
                     /\ connectionStatus' = "error"
                ELSE /\ sockets' = Append(socks1, [url |-> addr, readyState |-> "CONNECTING"])
                     /\ socketRef' = Len(sockets) + 1
                     /\ effectWs' = Len(sockets) + 1
                     /\ connectionStatus' = "connecting"

AddressEffect(addr) == AddressEffectWith(addr, TRUE)

\* updateSettings(next), next a record over a subset of the settings' keys.
UpdateSettingsWith(next, opens) ==
  LET merged == [k \in DOMAIN settings |-> IF k \in DOMAIN next THEN next[k] ELSE settings[k]]
  IN /\ settings' = merged
     /\ IF merged.wsAddress # settings.wsAddress
        THEN AddressEffectWith(merged.wsAddress, opens)
        ELSE ConnUnchanged /\ UNCHANGED connectionStatus
     /\ snapshotSend' = IF variant = "direct" THEN connectionStatus ELSE snapshotSend
     /\ sent' = <<>>
     /\ last' = [op |-> "updateSettings", next |-> next]
     /\ UNCHANGED <<variant, jointConfigs, jointAngles, desiredAnglesRef, smoothedAnglesRef,
                    gyroCalibration, lastMotion, isEmergencyStoppedRef, sinceLastSend,
                    sinceLastPose, poseWriteFailed, lastPose,
                    homeAnimationRef, homeAllStatus, mounted, storedDocument, loadPhase,
                    clearPhase, controlTiles, defaultsHeld, programs, activeProgramId, refreshPhase>>
     /\ persistTimer' = TRUE

UpdateSettings(next) == UpdateSettingsWith(next, TRUE)

PipelineUnchanged ==
  UNCHANGED <<variant, jointConfigs, jointAngles, desiredAnglesRef, smoothedAnglesRef,
              settings, gyroCalibration, lastMotion, snapshotSend, isEmergencyStoppedRef,
              sinceLastSend, sinceLastPose, lastPose, homeAnimationRef, homeAllStatus,
              mounted, persistTimer, storedDocument, loadPhase, clearPhase, controlTiles, defaultsHeld, programs, activeProgramId, refreshPhase>>

\* ws.onopen that leaves the attempt counter alone
SocketOpenKeepAttempts(s) ==
  /\ s \in DOMAIN sockets
  /\ sockets[s].readyState = "CONNECTING"
  /\ sockets' = [sockets EXCEPT ![s].readyState = "OPEN"]
  /\ connectionStatus' = IF mounted THEN "connected" ELSE connectionStatus
  /\ poseWriteFailed' = FALSE
  /\ sent' = <<>>
  /\ last' = [op |-> "open", sock |-> s]
  /\ UNCHANGED <<reconnectAttempts, reconnectTimeoutRef, timers, shouldReconnectRef,
                 socketRef, effectWs>>
  /\ PipelineUnchanged

\* ws.onopen of socket s.  setConnectionStatus and setReconnectAttempts do
\* nothing once the provider is unmounted.
SocketOpen(s) ==
  /\ s \in DOMAIN sockets
  /\ sockets[s].readyState = "CONNECTING"
  /\ sockets' = [sockets EXCEPT ![s].readyState = "OPEN"]
  /\ connectionStatus' = IF mounted THEN "connected" ELSE connectionStatus
  /\ poseWriteFailed' = FALSE
  /\ reconnectAttempts' = IF mounted THEN 0 ELSE reconnectAttempts
  /\ sent' = <<>>
  /\ last' = [op |-> "open", sock |-> s]
  /\ UNCHANGED <<reconnectTimeoutRef, timers, shouldReconnectRef, socketRef, effectWs>>
  /\ PipelineUnchanged

\* ws.onclose that schedules its retry without clearing the pending one
SocketCloseKeepTimer(s) ==
  /\ s \in DOMAIN sockets
  /\ sockets[s].readyState # "CLOSED"
  /\ sockets' = [sockets EXCEPT ![s].readyState = "CLOSED"]
  /\ socketRef' = IF socketRef = s THEN NoSocket ELSE socketRef
  /\ IF shouldReconnectRef /\ sockets[s].url # ""
     THEN /\ connectionStatus' = IF mounted THEN "reconnecting" ELSE connectionStatus
          /\ reconnectAttempts' = IF mounted THEN reconnectAttempts + 1
                                   ELSE reconnectAttempts
          /\ timers' = timers \cup
                         {[id |-> s, url |-> sockets[s].url,
                           delay |-> getReconnectDelay(reconnectAttempts)]}
          /\ reconnectTimeoutRef' = s
     ELSE /\ connectionStatus' = IF mounted THEN "disconnected" ELSE connectionStatus
          /\ UNCHANGED <<reconnectAttempts, timers, reconnectTimeoutRef>>
  /\ sent' = <<>>
  /\ last' = [op |-> "close", sock |-> s, wasOpen |-> sockets[s].readyState = "OPEN"]
  /\ UNCHANGED <<shouldReconnectRef, effectWs, poseWriteFailed>>
  /\ PipelineUnchanged

\* ws.onclose that gives up after three attempts
SocketCloseCapped(s) ==
  /\ s \in DOMAIN sockets
  /\ sockets[s].readyState # "CLOSED"
  /\ sockets' = [sockets EXCEPT ![s].readyState = "CLOSED"]
  /\ socketRef' = IF socketRef = s THEN NoSocket ELSE socketRef
  /\ IF shouldReconnectRef /\ sockets[s].url # "" /\ reconnectAttempts < 3
     THEN /\ connectionStatus' = IF mounted THEN "reconnecting" ELSE connectionStatus
          /\ reconnectAttempts' = IF mounted THEN reconnectAttempts + 1
                                   ELSE reconnectAttempts
          /\ timers' = clearReconnectTimeout \cup
                         {[id |-> s, url |-> sockets[s].url,
                           delay |-> getReconnectDelay(reconnectAttempts)]}
          /\ reconnectTimeoutRef' = s
     ELSE /\ connectionStatus' = IF mounted THEN "disconnected" ELSE connectionStatus
          /\ UNCHANGED <<reconnectAttempts, timers, reconnectTimeoutRef>>
  /\ sent' = <<>>
  /\ last' = [op |-> "close", sock |-> s, wasOpen |-> sockets[s].readyState = "OPEN"]
  /\ UNCHANGED <<shouldReconnectRef, effectWs, poseWriteFailed>>
  /\ PipelineUnchanged

\* ws.onclose of socket s (closed by the peer, by the network or after
\* ws.close()).  setConnectionStatus and setReconnectAttempts do nothing once
\* the provider is unmounted; the retry is scheduled inside the updater handed
\* to setReconnectAttempts.
SocketClose(s) ==
  /\ s \in DOMAIN sockets
  /\ sockets[s].readyState # "CLOSED"
  /\ sockets' = [sockets EXCEPT ![s].readyState = "CLOSED"]
  /\ socketRef' = IF socketRef = s THEN NoSocket ELSE socketRef
  /\ IF shouldReconnectRef /\ sockets[s].url # ""
     THEN /\ connectionStatus' = IF mounted THEN "reconnecting" ELSE connectionStatus
          /\ reconnectAttempts' = IF mounted THEN reconnectAttempts + 1
                                   ELSE reconnectAttempts
          /\ timers' = clearReconnectTimeout \cup
                         {[id |-> s, url |-> sockets[s].url,
                           delay |-> getReconnectDelay(reconnectAttempts)]}
          /\ reconnectTimeoutRef' = s
     ELSE /\ connectionStatus' = IF mounted THEN "disconnected" ELSE connectionStatus
          /\ UNCHANGED <<reconnectAttempts, timers, reconnectTimeoutRef>>
  /\ sent' = <<>>
  /\ last' = [op |-> "close", sock |-> s, wasOpen |-> sockets[s].readyState = "OPEN"]
  /\ UNCHANGED <<shouldReconnectRef, effectWs, poseWriteFailed>>
  /\ PipelineUnchanged

\* The reconnect timer t fires: connectWebSocket() of the render that created
\* the closed socket, hence with that socket's address.  `opens` is the
\* outcome of new WebSocket(url): FALSE when the constructor throws.
ReconnectTimerWith(t, opens) ==
  /\ t \in timers
  /\ timers' = timers \ {t}
  /\ reconnectTimeoutRef' = 0
  /\ IF shouldReconnectRef /\ t.url # ""
     THEN IF opens
          THEN /\ sockets' = Append(sockets, [url |-> t.url, readyState |-> "CONNECTING"])
               /\ socketRef' = Len(sockets) + 1
               /\ UNCHANGED connectionStatus
          ELSE /\ connectionStatus' = IF mounted THEN "error" ELSE connectionStatus
               /\ UNCHANGED <<sockets, socketRef>>
     ELSE UNCHANGED <<sockets, socketRef, connectionStatus>>
  /\ sent' = <<>>
  /\ last' = [op |-> "reconnectTimer", timer |-> t]
  /\ UNCHANGED <<reconnectAttempts, shouldReconnectRef, effectWs, poseWriteFailed>>
  /\ PipelineUnchanged

ReconnectTimer(t) == ReconnectTimerWith(t, TRUE)

\* ---------------------------------------------------------------------
\* Persistence and provider lifecycle
\* ---------------------------------------------------------------------
\* JSON.stringify of latestSnapshot.current as persistState writes it
Snapshot ==
  [type |-> "document", jointConfigs |-> jointConfigs, controlTiles |-> controlTiles,
   settings |-> settings]

\* The debounced save fires: persistTimer.current = null, then the snapshot
\* is written to STORAGE_FILE.
PersistTimer ==
  /\ persistTimer
  /\ persistTimer' = FALSE
  /\ storedDocument' = Snapshot
  /\ sent' = <<>>
  /\ last' = [op |-> "persistTimer"]
  /\ ConnUnchanged
  /\ UNCHANGED <<variant, jointConfigs, jointAngles, desiredAnglesRef, smoothedAnglesRef,
                 settings, gyroCalibration, lastMotion, snapshotSend, isEmergencyStoppedRef,
                 connectionStatus, sinceLastSend, sinceLastPose, poseWriteFailed, lastPose,
                 homeAnimationRef, homeAllStatus, mounted, loadPhase, clearPhase, controlTiles, defaultsHeld, programs, activeProgramId, refreshPhase>>

\* The load effect's getInfoAsync resolves: without a file the async function
\* returns, with one it goes on to readAsStringAsync.
LoadInfo ==
  /\ loadPhase = "getInfo"
  /\ loadPhase' = IF storedDocument = NoDocument THEN "done" ELSE "read"
  /\ sent' = <<>>
  /\ last' = [op |-> "loadInfo", exists |-> storedDocument # NoDocument]
  /\ ConnUnchanged
  /\ UNCHANGED <<variant, jointConfigs, jointAngles, desiredAnglesRef, smoothedAnglesRef,
                 settings, gyroCalibration, lastMotion, snapshotSend, isEmergencyStoppedRef,
                 connectionStatus, sinceLastSend, sinceLastPose, poseWriteFailed, lastPose,
                 homeAnimationRef, homeAllStatus, mounted, persistTimer, storedDocument,
                 clearPhase, controlTiles, defaultsHeld, programs, activeProgramId, refreshPhase>>

\* The load effect's readAsStringAsync resolves with the file as it is now
\* (it throws when the file was deleted meanwhile, and the catch leaves the
\* state alone) and the parsed document is merged into jointConfigs,
\* controlTiles and settings.  The re-render re-memoizes homeAll and runs the
\* reclamp effect, the address effect when the address changed, and the
\* persist effect; when the reclamp changed jointAngles the render after it
\* re-memoizes homeAll again, with the status the address effect set.  The
\* setters do nothing once the provider is unmounted.
LoadRead ==
  LET doc == storedDocument
      mergedConfigs == [j \in JOINTS |-> IF j \in DOMAIN doc.jointConfigs
                                         THEN doc.jointConfigs[j] ELSE jointConfigs[j]]
      mergedSettings == [k \in DOMAIN settings |-> IF k \in DOMAIN doc.settings
                                                   THEN doc.settings[k] ELSE settings[k]]
      reclamped == Reclamp(jointAngles, mergedConfigs)
  IN /\ loadPhase = "read"
     /\ loadPhase' = "done"
     /\ sent' = <<>>
     /\ last' = [op |-> "loadRead"]
     /\ IF mounted /\ doc # NoDocument
        THEN /\ jointConfigs' = mergedConfigs
             /\ controlTiles' = doc.controlTiles
             /\ jointAngles' = reclamped
             /\ settings' = mergedSettings
             /\ IF mergedSettings.wsAddress # settings.wsAddress
                THEN AddressEffect(mergedSettings.wsAddress)
                ELSE ConnUnchanged /\ UNCHANGED connectionStatus
             /\ snapshotSend' = IF variant = "direct" THEN connectionStatus ELSE snapshotSend
             /\ homeAllStatus' = IF variant # "direct" THEN homeAllStatus
                                 ELSE IF reclamped # jointAngles THEN connectionStatus'
                                 ELSE connectionStatus
             /\ defaultsHeld' = IF variant = "direct" THEN FALSE ELSE defaultsHeld
             /\ persistTimer' = TRUE
        ELSE /\ ConnUnchanged
             /\ UNCHANGED <<jointConfigs, controlTiles, jointAngles, settings,
                            connectionStatus, snapshotSend, homeAllStatus, defaultsHeld,
                            persistTimer>>
     /\ UNCHANGED <<variant, desiredAnglesRef, smoothedAnglesRef, gyroCalibration,
                    lastMotion, isEmergencyStoppedRef, sinceLastSend, sinceLastPose,
                    poseWriteFailed, lastPose, homeAnimationRef, mounted, storedDocument,
                    clearPhase, programs, activeProgramId, refreshPhase>>

\* clearSavedSettings() is called: it awaits getInfoAsync.  Nothing keeps a
\* second call from starting while an earlier one is in flight.
ClearSavedSettings ==
  /\ clearPhase' = [clearPhase EXCEPT !.getInfo = @ + 1]
  /\ sent' = <<>>
  /\ last' = [op |-> "clearSavedSettings"]
  /\ ConnUnchanged
  /\ UNCHANGED <<variant, jointConfigs, jointAngles, desiredAnglesRef, smoothedAnglesRef,
                 settings, gyroCalibration, lastMotion, snapshotSend, isEmergencyStoppedRef,
                 connectionStatus, sinceLastSend, sinceLastPose, poseWriteFailed, lastPose,
                 homeAnimationRef, homeAllStatus, mounted, persistTimer, storedDocument,
                 loadPhase, controlTiles, defaultsHeld, programs, activeProgramId, refreshPhase>>

\* The rest of clearSavedSettings after its awaits: jointConfigs,
\* controlTiles, settings and jointAngles go back to the defaults, and in the
\* smoothing controller both target refs.  setJointConfigs(defaultConfigs) and
\* setJointAngles(defaultAngles) change nothing when the state already holds
\* those objects, so homeAll is re-memoized only when one of them had been
\* replaced; settings is a new object, so the latestSnapshot effect, the
\* persist effect and (for a changed address) the address effect run.  The
\* setters do nothing once the provider is unmounted.
resetToDefaults ==
  /\ desiredAnglesRef' = IF variant = "smooth" THEN defaultAngles ELSE desiredAnglesRef
  /\ smoothedAnglesRef' = IF variant = "smooth" THEN defaultAngles ELSE smoothedAnglesRef
  /\ IF mounted
     THEN /\ jointConfigs' = defaultConfigs
          /\ controlTiles' = defaultTiles
          /\ settings' = defaultSettings
          /\ jointAngles' = defaultAngles
          /\ IF settings.wsAddress # ""
             THEN AddressEffect("")
             ELSE ConnUnchanged /\ UNCHANGED connectionStatus
          /\ snapshotSend' = IF variant = "direct" THEN connectionStatus ELSE snapshotSend
          /\ homeAllStatus' = IF variant = "direct" /\ ~defaultsHeld
                              THEN connectionStatus ELSE homeAllStatus
          /\ defaultsHeld' = TRUE
          /\ persistTimer' = TRUE
     ELSE /\ ConnUnchanged
          /\ UNCHANGED <<jointConfigs, controlTiles, settings, jointAngles,
                         connectionStatus, snapshotSend, homeAllStatus, defaultsHeld,
                         persistTimer>>

\* The getInfoAsync of a call of clearSavedSettings resolves: with a file the
\* call goes on to deleteAsync, without one it resets the state.
ClearInfo ==
  /\ clearPhase.getInfo > 0
  /\ sent' = <<>>
  /\ last' = [op |-> "clearInfo", exists |-> storedDocument # NoDocument]
  /\ IF storedDocument # NoDocument
     THEN /\ clearPhase' = [getInfo |-> clearPhase.getInfo - 1, delete |-> clearPhase.delete + 1]
          /\ ConnUnchanged
          /\ UNCHANGED <<jointConfigs, controlTiles, settings, jointAngles,
                         desiredAnglesRef, smoothedAnglesRef, connectionStatus,
                         snapshotSend, homeAllStatus, defaultsHeld, persistTimer>>
     ELSE /\ clearPhase' = [clearPhase EXCEPT !.getInfo = @ - 1]
          /\ resetToDefaults
  /\ UNCHANGED <<variant, gyroCalibration, lastMotion, isEmergencyStoppedRef,
                 sinceLastSend, sinceLastPose, poseWriteFailed, lastPose,
                 homeAnimationRef, mounted, storedDocument, loadPhase, programs, activeProgramId, refreshPhase>>

\* The deleteAsync of a call of clearSavedSettings settles.  With the file
\* there it resolves: the file is gone and the state is reset.  With the file
\* gone meanwhile (another call deleted it) it rejects, and the catch leaves
\* the state alone.
ClearDelete ==
  /\ clearPhase.delete > 0
  /\ clearPhase' = [clearPhase EXCEPT !.delete = @ - 1]
  /\ storedDocument' = NoDocument
  /\ IF storedDocument # NoDocument
     THEN resetToDefaults
     ELSE /\ ConnUnchanged
          /\ UNCHANGED <<jointConfigs, controlTiles, settings, jointAngles,
                         desiredAnglesRef, smoothedAnglesRef, connectionStatus,
                         snapshotSend, homeAllStatus, defaultsHeld, persistTimer>>
  /\ sent' = <<>>
  /\ last' = [op |-> "clearDelete"]
  /\ UNCHANGED <<variant, gyroCalibration, lastMotion, isEmergencyStoppedRef,
                 sinceLastSend, sinceLastPose, poseWriteFailed, lastPose,
                 homeAnimationRef, mounted, loadPhase, programs, activeProgramId, refreshPhase>>

\* The AppState listener is told that the app is no longer active: with a
\* save pending it writes the snapshot at once and leaves the timer pending.
\* The subscription is removed when the provider unmounts.
AppBackground ==
  /\ mounted
  /\ storedDocument' = IF persistTimer THEN Snapshot ELSE storedDocument
  /\ sent' = <<>>
  /\ last' = [op |-> "appBackground"]
  /\ ConnUnchanged
  /\ UNCHANGED <<variant, jointConfigs, jointAngles, desiredAnglesRef, smoothedAnglesRef,
                 settings, gyroCalibration, lastMotion, snapshotSend, isEmergencyStoppedRef,
                 connectionStatus, sinceLastSend, sinceLastPose, poseWriteFailed, lastPose,
                 homeAnimationRef, homeAllStatus, mounted, persistTimer, loadPhase,
                 clearPhase, controlTiles, defaultsHeld, programs, activeProgramId, refreshPhase>>

\* setControlTiles with an updater: a new array (isNew) re-runs the
\* latestSnapshot effect and the persist effect, the array it was given does
\* nothing.
SetControlTiles(tiles, isNew, op) ==
  LET changed == mounted /\ isNew
  IN /\ controlTiles' = IF changed THEN tiles ELSE controlTiles
     /\ persistTimer' = (persistTimer \/ changed)
     /\ snapshotSend' = IF variant = "direct" /\ changed
                        THEN connectionStatus ELSE snapshotSend
     /\ sent' = <<>>
     /\ last' = op
     /\ ConnUnchanged
     /\ UNCHANGED <<variant, jointConfigs, jointAngles, desiredAnglesRef,
                    smoothedAnglesRef, settings, gyroCalibration, lastMotion,
                    isEmergencyStoppedRef, connectionStatus, sinceLastSend, sinceLastPose,
                    poseWriteFailed, lastPose, homeAnimationRef, homeAllStatus, mounted,
                    storedDocument, loadPhase, clearPhase, defaultsHeld, programs, activeProgramId, refreshPhase>>

\* the first position of wps that holds id, 0 when there is none (findIndex)
IndexOfId(wps, id) ==
  IF \E i \in 1..Len(wps) : wps[i].id = id
  THEN CHOOSE i \in 1..Len(wps) : wps[i].id = id /\ \A k \in 1..(i - 1) : wps[k].id # id
  ELSE 0

\* reorderTile(tileId, direction): the tile changes places with its
\* neighbour; the updater returns the array it was given when the tile is
\* not there or has no neighbour on that side.
ReorderTile(tileId, direction) ==
  LET index == IndexOfId(controlTiles, tileId)
      targetIndex == IF direction = "up" THEN index - 1 ELSE index + 1
      swapped == [controlTiles EXCEPT ![index] = controlTiles[targetIndex],
                                      ![targetIndex] = controlTiles[index]]
      same == index = 0 \/ targetIndex < 1 \/ targetIndex > Len(controlTiles)
  IN SetControlTiles(IF same THEN controlTiles ELSE swapped, ~same,
                     [op |-> "reorderTile", tileId |-> tileId, direction |-> direction])

\* remapTile(tileId, joint): tiles.map always returns a new array.
RemapTile(tileId, joint) ==
  SetControlTiles([i \in 1..Len(controlTiles) |->
                     IF controlTiles[i].id = tileId
                     THEN [controlTiles[i] EXCEPT !.joint = joint]
                     ELSE controlTiles[i]],
                  TRUE,
                  [op |-> "remapTile", tileId |-> tileId, joint |-> joint])

\* The provider unmounts: the cleanup of every effect runs (homing interval,
\* smoothing interval, load effect's cancelled flag, address effect, gyro
\* subscription, AppState subscription).  The address effect registered a
\* cleanup only when its address was not empty.
Unmount ==
  /\ mounted
  /\ mounted' = FALSE
  /\ homeAnimationRef' = NoPose
  /\ IF settings.wsAddress # ""
     THEN /\ shouldReconnectRef' = FALSE
          /\ timers' = clearReconnectTimeout
          /\ reconnectTimeoutRef' = 0
          /\ sockets' = closeSocket(sockets, effectWs)
          /\ socketRef' = IF socketRef = effectWs THEN NoSocket ELSE socketRef
          /\ UNCHANGED <<reconnectAttempts, effectWs>>
     ELSE ConnUnchanged
  /\ sent' = <<>>
  /\ last' = [op |-> "unmount"]
  /\ UNCHANGED <<variant, jointConfigs, jointAngles, desiredAnglesRef, smoothedAnglesRef,
                 settings, gyroCalibration, lastMotion, snapshotSend, isEmergencyStoppedRef,
                 connectionStatus, sinceLastSend, sinceLastPose, poseWriteFailed, lastPose,
                 homeAllStatus, persistTimer, storedDocument, loadPhase, clearPhase, controlTiles, defaultsHeld, programs, activeProgramId, refreshPhase>>

\* ---------------------------------------------------------------------
\* Program timeline (src/hooks/use-programs.tsx)
\* ---------------------------------------------------------------------
\* A number is a record [finite, value]: finite is Number.isFinite(Number(x)),
\* and value is the integer (times are whole milliseconds) or, of a number that
\* is not finite, 0 for NaN, 1 for Infinity and -1 for -Infinity.
\* An id is a tuple over the reading c of Date.now(), which may repeat or go
\* back: `wp-${c}` is <<c>>, `wp-${c}-${suffix}` is <<c, suffix>> and
\* `program-${c}` is <<"program", c>>.
DEFAULT_SEGMENT_MS == 1000
NoId == <<>>
Num(v) == [finite |-> TRUE, value |-> v]
NaN == [finite |-> FALSE, value |-> 0]
Infinity == [finite |-> FALSE, value |-> 1]

\* a - b of two numbers; a + b is Sub(a, [b EXCEPT !.value = -@])
Sub(a, b) ==
  IF a.finite /\ b.finite THEN Num(a.value - b.value)
  ELSE IF a = NaN \/ b = NaN THEN NaN
  ELSE IF ~a.finite /\ ~b.finite THEN (IF a.value = b.value THEN NaN ELSE a)
  ELSE IF ~a.finite THEN a
  ELSE [b EXCEPT !.value = -@]

\* Math.max(0, a)
MaxZero(a) == IF a = NaN \/ a.value > 0 THEN a ELSE Num(0)

ControllerUnchanged ==
  /\ ConnUnchanged
  /\ UNCHANGED <<variant, jointConfigs, jointAngles, desiredAnglesRef, smoothedAnglesRef,
                 settings, gyroCalibration, lastMotion, snapshotSend, isEmergencyStoppedRef,
                 connectionStatus, sinceLastSend, sinceLastPose, poseWriteFailed, lastPose,
                 homeAnimationRef, homeAllStatus, mounted, persistTimer, storedDocument,
                 loadPhase, clearPhase, controlTiles, defaultsHeld>>

\* [...wps].sort((a, b) => a.t - b.t): the arrays the sort can return.  The
\* comparator's NaN (a time is NaN, or both are Infinity) counts as 0.  The
\* sort is stable when the comparator is consistent; it is not consistent when
\* a NaN time, which compares equal to everything, stands beside two times
\* that differ, and the order is then whatever the engine's algorithm leaves.
SortByT(wps) ==
  LET n == Len(wps)
      sign(i, k) == Sub(wps[i].t, wps[k].t).value
      consistent == \A i, j, k \in 1..n :
                       (sign(i, j) = 0 /\ sign(j, k) = 0) => sign(i, k) = 0
      position(i) == 1 + Cardinality({k \in 1..n : \/ sign(k, i) < 0
                                                   \/ sign(k, i) = 0 /\ k < i})
      injections == {f \in [1..n -> 1..n] : \A p, q \in 1..n : f[p] = f[q] => p = q}
  IN IF consistent
     THEN {[p \in 1..n |-> wps[CHOOSE i \in 1..n : position(i) = p]]}
     ELSE {[p \in 1..n |-> wps[f[p]]] : f \in injections}

\* The lists normalizeWaypoints can return.  raws[i].valid: the entry is an
\* object with joints; raws[i].id is NoId when raw.id is not a string, and the
\* id is then made from the entry's own reading of the clock, one of clocks,
\* and the entry's index in the file.
normalizeWaypoints(raws, clocks) ==
  LET sanitized(reading) ==
        LET named == [i \in 1..Len(raws) |->
                        [raws[i] EXCEPT !.id = IF @ = NoId THEN <<reading[i], i - 1>> ELSE @]]
            kept == SelectSeq(named, LAMBDA raw : raw.valid)
        IN [i \in 1..Len(kept) |->
              [id |-> kept[i].id,
               t |-> IF kept[i].t.finite THEN MaxZero(kept[i].t) ELSE Num(0),
               joints |-> kept[i].joints]]
  IN UNION {{[i \in 1..Len(sorted) |-> IF i = 1 THEN [sorted[i] EXCEPT !.t = Num(0)]
                                       ELSE sorted[i]] :
               sorted \in SortByT(sanitized(reading))} :
            reading \in [1..Len(raws) -> clocks]}

\* the lists reanchorTimeline can return; sorted[0].t || 0 is 0 for NaN
reanchorTimeline(wps) ==
  {[i \in 1..Len(sorted) |->
      [sorted[i] EXCEPT !.t =
         IF i = 1 THEN Num(0)
         ELSE MaxZero(Sub(@, IF sorted[1].t = NaN THEN Num(0) ELSE sorted[1].t))]] :
     sorted \in SortByT(wps)}

\* the lists of integers extractDurations can return
extractDurations(wps) ==
  {[i \in 1..(Len(sorted) - 1) |->
      LET diff == Sub(sorted[i + 1].t, sorted[i].t)
      IN IF diff.finite /\ diff.value >= 0 THEN diff.value ELSE DEFAULT_SEGMENT_MS] :
     sorted \in SortByT(wps)}

RECURSIVE SumSeq(_)
SumSeq(q) == IF q = <<>> THEN 0 ELSE Head(q) + SumSeq(Tail(q))

\* durations: a sequence of integers
applyDurationsToOrder(order, durations) ==
  LET sanitizedDurations == [i \in 1..Len(durations) |->
                               IF durations[i] >= 0 THEN durations[i] ELSE DEFAULT_SEGMENT_MS]
      span(i) == IF i <= Len(sanitizedDurations) THEN sanitizedDurations[i]
                 ELSE DEFAULT_SEGMENT_MS
  IN [i \in 1..Len(order) |->
        [order[i] EXCEPT !.t = Num(SumSeq([k \in 1..(i - 1) |-> span(k)]))]]

\* splice(at, 0, x)
InsertInSeq(q, at, x) == SubSeq(q, 1, at - 1) \o <<x>> \o SubSeq(q, at, Len(q))

\* the waypoint lists of the programs ps
Timelines(ps) == {program.waypoints : program \in BagToSet(ps)}

\* the programs arrays (as bags) whose i-th program has the id ids[i] and
\* waypoints that are one of choices[i]
RECURSIVE ProgramBags(_, _)
ProgramBags(ids, choices) ==
  IF ids = <<>> THEN {EmptyBag}
  ELSE {SetToBag({[id |-> Head(ids), waypoints |-> timeline]}) (+) rest :
          timeline \in Head(choices), rest \in ProgramBags(Tail(ids), Tail(choices))}

\* setPrograms(current => sortPrograms(current.map(program =>
\* program.id !== programId ? program : { ...program, waypoints: ... }))) on
\* the programs ps: the updater's body runs for each program that has the id
\* (current lists them), outcomes[wps] are the waypoint lists it can make of
\* wps, and the other programs stay.
MapPrograms(ps, programId, outcomes) ==
  LET hit == {p \in BagToSet(ps) : p.id = programId}
      others == [p \in BagToSet(ps) \ hit |-> ps[p]]
      copies == BagCardinality([p \in hit |-> ps[p]])
      current == CHOOSE q \in [1..copies -> hit] :
                   \A p \in hit : Cardinality({i \in DOMAIN q : q[i] = p}) = ps[p]
  IN {others (+) mapped :
        mapped \in ProgramBags([i \in DOMAIN current |-> programId],
                               [i \in DOMAIN current |-> outcomes[current[i].waypoints]])}

\* op is "moveWaypoint" for a step of moveWaypoint and "program" for every
\* other step of the ProgramsProvider
ProgramStep(nextPrograms, nextActive, nextPhase, op) ==
  /\ programs' = nextPrograms
  /\ activeProgramId' = nextActive
  /\ refreshPhase' = nextPhase
  /\ sent' = <<>>
  /\ last' = [op |-> op]
  /\ ControllerUnchanged

\* refreshPrograms() is called while no refresh is running (a call during one
\* only sets isReady): loadingRef.current = true, and it awaits
\* ensureDirectory and readDirectoryAsync.
RefreshBegin ==
  /\ refreshPhase = "idle"
  /\ ProgramStep(programs, activeProgramId, "files", "program")

\* readDirectoryAsync and the reads of the files have resolved:
\* setPrograms(loaded), and refreshPrograms awaits the read of state.json.
\* files[i].valid: the file parses and normalizeProgram keeps it.  listed is
\* FALSE when readDirectoryAsync rejects: the finally block ends the refresh.
RefreshPrograms(files, listed, clocks) ==
  LET loaded == SelectSeq(files, LAMBDA raw : raw.valid)
  IN /\ refreshPhase = "files"
     /\ IF listed
        THEN \E next \in ProgramBags([i \in DOMAIN loaded |-> loaded[i].id],
                                     [i \in DOMAIN loaded |->
                                        normalizeWaypoints(loaded[i].waypoints, clocks)]) :
                ProgramStep(next, activeProgramId, "state", "program")
        ELSE ProgramStep(programs, activeProgramId, "idle", "program")

\* The read of state.json has resolved or thrown; stateActive is the file's
\* activeProgramId, NoProgram when the read threw or the file holds no such
\* non-empty string.  loadingRef.current = false.
RefreshState(stateActive) ==
  /\ refreshPhase = "state"
  /\ ProgramStep(programs, IF stateActive # NoProgram THEN stateActive ELSE activeProgramId,
                 "idle", "program")

\* createdProgram is assigned inside the updater handed to setPrograms.  React
\* runs the updater before setPrograms returns when the provider has no update
\* pending (ran) and at the next render otherwise, which is after the
\* `if (!createdProgram) return null` that precedes setActiveProgramId.
CreateProgram(clock, ran) ==
  LET id == <<"program", clock>>
  IN ProgramStep(programs (+) SetToBag({[id |-> id, waypoints |-> <<>>]}),
                 IF ran THEN id ELSE activeProgramId, refreshPhase, "program")

SelectProgram(programId) ==
  ProgramStep(programs, programId, refreshPhase, "program")

\* gapMs: a number.  programIdOverride is NoProgram when the argument is null
\* or left out.  Each program that has the target id reads the clock for its
\* waypoint's id: clocks are the readings.
AppendWaypointFromAngles(angles, gapMs, programIdOverride, clocks) ==
  LET targetProgramId == IF programIdOverride # NoProgram THEN programIdOverride
                         ELSE activeProgramId
      appended == [wps \in Timelines(programs) |->
                     LET nextT == IF wps = <<>> THEN Num(0)
                                  ELSE Sub(wps[Len(wps)].t, [MaxZero(gapMs) EXCEPT !.value = -@])
                     IN {Append(wps, [id |-> <<clock>>, t |-> nextT, joints |-> angles]) :
                           clock \in clocks}]
  IN \E next \in IF targetProgramId = NoProgram THEN {programs}
                 ELSE MapPrograms(programs, targetProgramId, appended) :
        ProgramStep(next, activeProgramId, refreshPhase, "program")

DeleteWaypoint(programId, waypointId) ==
  LET timeline == [wps \in Timelines(programs) |->
                     reanchorTimeline(SelectSeq(wps, LAMBDA wp : wp.id # waypointId))]
  IN \E next \in MapPrograms(programs, programId, timeline) :
        ProgramStep(next, activeProgramId, refreshPhase, "program")

\* durations: a sequence of numbers
UpdateDurations(programId, durations) ==
  LET span(k) == IF durations[k].finite /\ durations[k].value >= 0
                 THEN durations[k].value ELSE DEFAULT_SEGMENT_MS
      timeline == [wps \in Timelines(programs) |->
                     {[i \in 1..Len(wps) |->
                         [wps[i] EXCEPT !.t =
                            Num(IF i = 1 THEN 0
                               ELSE SumSeq([k \in 1..Min2(i - 1, Len(durations)) |-> span(k)]))]]}]
  IN \E next \in MapPrograms(programs, programId, timeline) :
        ProgramStep(next, activeProgramId, refreshPhase, "program")

\* the programs arrays moveWaypoint's updater can make of ps
MovedPrograms(ps, programId, waypointId, direction) ==
  LET moved(wps, ordered, durations) ==
        LET index == IndexOfId(ordered, waypointId)
            targetIndex == IF direction = "up" THEN index - 1 ELSE index + 1
            \* ordered.splice(index, 1)
            without == SubSeq(ordered, 1, index - 1) \o SubSeq(ordered, index + 1, Len(ordered))
        IN IF index = 0 \/ targetIndex < 1 \/ targetIndex > Len(ordered) THEN wps
           ELSE applyDurationsToOrder(InsertInSeq(without, targetIndex, ordered[index]),
                                      durations)
      timeline == [wps \in Timelines(ps) |->
                     UNION {{moved(wps, ordered, durations) :
                               durations \in extractDurations(ordered)} :
                            ordered \in SortByT(wps)}]
  IN MapPrograms(ps, programId, timeline)

MoveWaypoint(programId, waypointId, direction) ==
  \E next \in MovedPrograms(programs, programId, waypointId, direction) :
     ProgramStep(next, activeProgramId, refreshPhase, "moveWaypoint")

\* Each program that has the id reads the clock and Math.random() for its
\* clone's id: clocks are the readings, randoms the values of
\* Math.random().toString(36).slice(2, 6).
DuplicateWaypoint(programId, waypointId, clocks, randoms) ==
  LET timeline == [wps \in Timelines(programs) |->
        UNION {LET index == IndexOfId(ordered, waypointId)
               IN IF index = 0 THEN {wps}
                  ELSE {applyDurationsToOrder(
                          InsertInSeq(ordered, index + 1,
                                      [ordered[index] EXCEPT !.id = <<clock, random>>]),
                          InsertInSeq(durations, index, DEFAULT_SEGMENT_MS)) :
                        clock \in clocks, random \in randoms,
                        durations \in extractDurations(ordered)} :
               ordered \in SortByT(wps)}]
  IN \E next \in MapPrograms(programs, programId, timeline) :
        ProgramStep(next, activeProgramId, refreshPhase, "program")

\* ---------------------------------------------------------------------
\* Gyro Input Adapter
\* ---------------------------------------------------------------------
\* lastMotion and gyroCalibration hold rotations in units of pi/180 rad, so
\* that (pitch - calibration.pitch) * (180 / Math.PI) is their difference.
GYRO_FULL_TILT == 90

\* Number(clamp(home + num / den, min, max).toFixed(1)), den > 0: the outcomes.
\* home + num / den is whole + (num % den) / den.
gyroAngle(cfg, num, den) ==
  LET whole == cfg.home + (num \div den)
      exact == (num % den) = 0
  IN IF whole < cfg.min THEN toFixed1(Min2(cfg.min, cfg.max))
     ELSE IF whole >= cfg.max THEN toFixed1(cfg.max)
     ELSE toFixed1Parts(whole, exact)

\* applyGyro of src/hooks/use-robot-controller.tsx followed by updateJoint's rounding
applyGyroSmooth(raw, cfg, gyroScale) ==
  LET span == Min2(cfg.max - cfg.home, cfg.home - cfg.min)
      tilt == clamp(raw, -GYRO_FULL_TILT, GYRO_FULL_TILT)
  IN gyroAngle(cfg, tilt * span * gyroScale, GYRO_FULL_TILT * 90)

\* applyGyro of src/unnamed/part_000 followed by the listener's rounding
applyGyroDirect(raw, cfg, gyroScale) ==
  LET range == cfg.max - cfg.min
      tilt == clamp(raw, -GYRO_FULL_TILT, GYRO_FULL_TILT)
  IN gyroAngle(cfg, tilt * range * gyroScale, GYRO_FULL_TILT * 2 * 100)

GyroSample(pitch, roll) ==
  /\ mounted
  /\ settings.gyroEnabled
  /\ lastMotion' = [pitch |-> pitch, roll |-> roll]
  /\ LET pj == settings.gyroPitchJoint
         rj == settings.gyroRollJoint
         dp == pitch - gyroCalibration.pitch
         dr == roll - gyroCalibration.roll
     IN IF variant = "smooth"
        THEN \E ap \in applyGyroSmooth(dp, jointConfigs[pj], settings.gyroScale),
                ar \in applyGyroSmooth(dr, jointConfigs[rj], settings.gyroScale) :
                /\ desiredAnglesRef' = [[desiredAnglesRef EXCEPT ![pj] = ap] EXCEPT ![rj] = ar]
                /\ jointAngles' = [[jointAngles EXCEPT ![pj] = ap] EXCEPT ![rj] = ar]
                /\ Commit(NoSend, TRUE, FALSE, FALSE)
        ELSE \E ap \in applyGyroDirect(dp, jointConfigs[pj], settings.gyroScale),
                ar \in applyGyroDirect(dr, jointConfigs[rj], settings.gyroScale) :
             LET withPitch == IF ap # jointAngles[pj]
                              THEN [jointAngles EXCEPT ![pj] = ap] ELSE jointAngles
                 next == IF ar # jointAngles[rj]
                         THEN [withPitch EXCEPT ![rj] = ar] ELSE withPitch
                 changed == ap # jointAngles[pj] \/ ar # jointAngles[rj]
             IN /\ UNCHANGED desiredAnglesRef
                /\ jointAngles' = IF changed THEN next ELSE jointAngles
                /\ IF changed /\ snapshotSend # "noop"
                   THEN Commit(sendPayload(next, snapshotSend), TRUE, FALSE, FALSE)
                   ELSE Commit(NoSend, changed, FALSE, FALSE)
  /\ last' = [op |-> "gyroSample", pitch |-> pitch, roll |-> roll]
  /\ ConnUnchanged
  /\ UNCHANGED <<variant, jointConfigs, smoothedAnglesRef, settings, gyroCalibration,
                 isEmergencyStoppedRef, homeAnimationRef>>

CalibrateGyro ==
  /\ gyroCalibration' = lastMotion
  /\ Commit(NoSend, FALSE, FALSE, FALSE)
  /\ last' = [op |-> "calibrateGyro"]
  /\ ConnUnchanged
  /\ UNCHANGED <<variant, jointConfigs, jointAngles, desiredAnglesRef, smoothedAnglesRef,
                 settings, lastMotion, isEmergencyStoppedRef, homeAnimationRef>>

\* ---------------------------------------------------------------------
\* Inputs of the model
\* ---------------------------------------------------------------------
PartialPose(p) == [j \in JOINTS |-> IF j \in DOMAIN p THEN Num(p[j]) ELSE NaN]

\* --- connection manager ------------------------------------------------
ConnAddresses == {"", "ws://a", "ws://b", "http://x"}

NextConn ==
  \/ \E a \in ConnAddresses : UpdateSettings([wsAddress |-> a]) /\ Len(sockets') <= MaxSockets
  \/ \E s \in DOMAIN sockets : SocketOpen(s)
  \/ \E s \in DOMAIN sockets : SocketClose(s)
  \/ \E t \in timers : ReconnectTimer(t) /\ Len(sockets') <= MaxSockets

SpecConn == Init /\ [][NextConn]_vars

\* --- reconnect cycle of one address ---------------------------------------
BackoffAddresses == {"", "ws://a"}

NextBackoff ==
  \/ \E a \in BackoffAddresses : UpdateSettings([wsAddress |-> a]) /\ Len(sockets') <= MaxRetrySockets
  \/ \E s \in DOMAIN sockets : SocketOpen(s)
  \/ \E s \in DOMAIN sockets : SocketClose(s)
  \/ \E t \in timers : ReconnectTimer(t) /\ Len(sockets') <= MaxRetrySockets

SpecBackoff == Init /\ [][NextBackoff]_vars

\* --- reconnect cycle with a peer that refuses or drops the first transports ---
\* The address is set once and never changed.  Timers fire and a transport
\* the peer does not close opens: weak fairness on both.
RetryTimer == \E t \in timers : ReconnectTimer(t)
RetryOpen == \E s \in DOMAIN sockets : SocketOpen(s)

NextRetry ==
  \/ \E a \in {"ws://a"} : UpdateSettings([wsAddress |-> a])
  \/ RetryOpen
  \/ \E s \in DOMAIN sockets : SocketClose(s) /\ Len(sockets) <= MaxRefused
  \/ RetryTimer

SpecRetry == Init /\ [][NextRetry]_vars /\ WF_vars(RetryTimer) /\ WF_vars(RetryOpen)

\* --- transient failures: a constructor that throws, a peer that drops --------
\* Timers fire and a transport the peer does not close opens (weak fairness on
\* both); the peer closes transports only while at most MaxFaults exist.
FaultAddresses == {"ws://a", "ws://b"}

FaultTimer == \E t \in timers : \E opens \in BOOLEAN : ReconnectTimerWith(t, opens)
FaultOpen == \E s \in DOMAIN sockets : SocketOpen(s)

NextFault ==
  \/ \E a \in FaultAddresses : \E opens \in BOOLEAN :
        UpdateSettingsWith([wsAddress |-> a], opens) /\ Len(sockets') <= MaxFaults
  \/ FaultOpen
  \/ \E s \in DOMAIN sockets : SocketClose(s) /\ Len(sockets) <= MaxFaults
  \/ FaultTimer
  \/ ResumeAfterStop

SpecFault == Init /\ [][NextFault]_vars /\ WF_vars(FaultTimer) /\ WF_vars(FaultOpen)

\* --- command pipeline with the interlock -----------------------------------
JointInputs == {<<"armA", 179540>>}
PoseInputs == {PartialPose([armA |-> 999000])}
SettingsInputs == {[wsAddress |-> "ws://a"], [gyroEnabled |-> TRUE]}
GyroInputs == {[pitch |-> 0, roll |-> 0]}
TimeSteps == {500}
PipeTimeSteps == {HOME_DURATION}
SendTimeSteps == {SEND_INTERVAL_DIRECT}

Next ==
  \/ \E in \in JointInputs : UpdateJoint(in[1], in[2])
  \/ \E pose \in PoseInputs : GoToPose(pose)
  \/ HomeAll
  \/ HomeFrame
  \/ SmoothTick
  \/ EmergencyStop
  \/ ResumeAfterStop
  \/ \E dt \in PipeTimeSteps : Elapse(dt)
  \/ \E next \in SettingsInputs : UpdateSettings(next)
  \/ \E s \in DOMAIN sockets : SocketOpen(s)
  \/ \E s \in DOMAIN sockets : SocketClose(s)
  \/ \E g \in GyroInputs : GyroSample(g.pitch, g.roll)

Spec == Init /\ [][Next]_vars

\* --- interlock over a connection whose address changes -----------------------
LinkAddresses == {"ws://a", "ws://b"}
LinkJointInputs == {<<"armA", 179540>>}

NextLink ==
  \/ \E a \in LinkAddresses : UpdateSettings([wsAddress |-> a]) /\ Len(sockets') <= MaxLinkSockets
  \/ \E s \in DOMAIN sockets : SocketOpen(s)
  \/ \E s \in DOMAIN sockets : SocketClose(s)
  \/ \E t \in timers : ReconnectTimer(t) /\ Len(sockets') <= MaxLinkSockets
  \/ EmergencyStop
  \/ ResumeAfterStop
  \/ \E in \in LinkJointInputs : UpdateJoint(in[1], in[2])

SpecLink == Init /\ [][NextLink]_vars

\* --- program dispatch, interlock and gyro control over a changing connection ---
ProgramAddresses == {"ws://a", "ws://b"}
ProgramSettingsInputs == {[gyroEnabled |-> TRUE]}

NextProgram ==
  \/ \E a \in ProgramAddresses :
        UpdateSettings([wsAddress |-> a]) /\ Len(sockets') <= MaxProgramSockets
  \/ \E s \in DOMAIN sockets : SocketOpen(s)
  \/ \E s \in DOMAIN sockets : SocketClose(s)
  \/ \E t \in timers : ReconnectTimer(t) /\ Len(sockets') <= MaxProgramSockets
  \/ EmergencyStop
  \/ ResumeAfterStop
  \/ \E next \in ProgramSettingsInputs : UpdateSettings(next)
  \/ SendProgramRun

SpecProgram == Init /\ [][NextProgram]_vars

\* --- joint state store ----------------------------------------------------
StoreJointInputs == {<<"base", -5000>>, <<"base", 90060>>, <<"armA", 10000>>}
StorePoseInputs == {PartialPose([base |-> 999000]),
                    PartialPose([base |-> 90050, armA |-> 10000]),
                    PartialPose([x \in {} |-> 0])}
StoreConfigInputs == {<<"base", [min |-> 120000, max |-> 60000]>>,
                      <<"base", [min |-> 200000]>>,
                      <<"base", [home |-> 999000]>>,
                      <<"armA", [max |-> 179500]>>}

NextStore ==
  \/ \E in \in StoreJointInputs : UpdateJoint(in[1], in[2])
  \/ \E pose \in StorePoseInputs : GoToPose(pose)
  \/ \E in \in StoreConfigInputs : SetJointConfig(in[1], in[2])
  \/ HomeAll

SpecStore == Init /\ [][NextStore]_vars

\* --- bounds changed while targets are pending ------------------------------
BoundsConfigInputs == {<<"armA", [max |-> 170000]>>}

NextBounds ==
  \/ UpdateSettings([wsAddress |-> "ws://a"]) /\ Len(sockets') <= MaxBoundsSockets
  \/ \E s \in DOMAIN sockets : SocketOpen(s)
  \/ \E in \in BoundsConfigInputs : SetJointConfig(in[1], in[2])
  \/ SmoothTick
  \/ HomeAll
  \/ HomeFrame
  \/ \E dt \in TimeSteps : Elapse(dt)

SpecBounds == Init /\ [][NextBounds]_vars

\* --- homing while the smoothing loop runs ---------------------------------------
HomeJointInputs == {<<"base", 88000>>}
HomeTimeSteps == {333}

NextHome ==
  \/ UpdateSettings([wsAddress |-> "ws://a"]) /\ Len(sockets') <= MaxHomeSockets
  \/ \E s \in DOMAIN sockets : SocketOpen(s)
  \/ \E in \in HomeJointInputs : UpdateJoint(in[1], in[2])
  \/ HomeAll
  \/ HomeFrame
  \/ SmoothTick
  \/ \E dt \in HomeTimeSteps : Elapse(dt)

SpecHome == Init /\ [][NextHome]_vars

\* --- gyro input ---------------------------------------------------------------
GyroSettingsInputs == {[gyroEnabled |-> TRUE], [gyroRollJoint |-> "wristA"],
                       [wsAddress |-> "ws://a"]}

NextGyro ==
  \/ \E next \in GyroSettingsInputs :
        UpdateSettings(next) /\ Len(sockets') <= MaxGyroSockets
  \/ \E s \in DOMAIN sockets : SocketOpen(s)
  \/ \E in \in {<<"armA", [max |-> 179960]>>} : SetJointConfig(in[1], in[2])
  \/ \E g \in {[pitch |-> 0, roll |-> 0], [pitch |-> 45, roll |-> -120]} : GyroSample(g.pitch, g.roll)
  \/ CalibrateGyro
  \/ EmergencyStop
  \/ ResumeAfterStop
  \/ \E dt \in SendTimeSteps : Elapse(dt)

SpecGyro == Init /\ [][NextGyro]_vars

\* --- mounting and unmounting the provider -----------------------------------------
NextLife ==
  \/ \E a \in {"ws://a"} :
        mounted /\ UpdateSettings([wsAddress |-> a]) /\ Len(sockets') <= MaxLifeSockets
  \/ \E in \in {<<"base", [home |-> 80000]>>} : mounted /\ SetJointConfig(in[1], in[2])
  \/ mounted /\ HomeAll
  \/ \E s \in DOMAIN sockets : SocketOpen(s)
  \/ \E s \in DOMAIN sockets : SocketClose(s)
  \/ \E t \in timers : ReconnectTimer(t) /\ Len(sockets') <= MaxLifeSockets
  \/ PersistTimer
  \/ AppBackground
  \/ Unmount

SpecLife == Init /\ [][NextLife]_vars

\* --- editing a program's timeline ------------------------------------------------
TimelineEdited == {<<"program", 1>>}
TimelineWaypointIds == {<<1>>, <<2>>, <<1, 7>>}
TimelineFiles ==
  {<<>>,
   <<[valid |-> TRUE, id |-> <<"program", 1>>,
      waypoints |-> <<[valid |-> TRUE, id |-> <<1>>, t |-> Num(2000), joints |-> defaultAngles],
                      [valid |-> FALSE, id |-> <<9>>, t |-> Num(100), joints |-> defaultAngles],
                      [valid |-> TRUE, id |-> <<2>>, t |-> Num(700), joints |-> defaultAngles],
                      [valid |-> TRUE, id |-> <<1, 7>>, t |-> Num(-500), joints |-> defaultAngles]>>]>>,
   <<[valid |-> TRUE, id |-> <<"program", 1>>,
      waypoints |-> <<[valid |-> TRUE, id |-> <<1>>, t |-> NaN, joints |-> defaultAngles],
                      [valid |-> TRUE, id |-> <<2>>, t |-> Num(300), joints |-> defaultAngles]>>],
     [valid |-> FALSE, id |-> <<"program", 1>>, waypoints |-> <<>>],
     [valid |-> TRUE, id |-> <<"program", 2>>,
      waypoints |-> <<[valid |-> TRUE, id |-> NoId, t |-> Num(250), joints |-> defaultAngles],
                      [valid |-> TRUE, id |-> NoId, t |-> Infinity, joints |-> defaultAngles]>>]>>}

\* the programs and their waypoints are few, the finite times small
TimelineBounded(ps) ==
  /\ BagCardinality(ps)
       + Cardinality(UNION {{<<p, c, i>> : c \in 1..CopiesIn(p, ps), i \in 1..Len(p.waypoints)} :
                              p \in BagToSet(ps)}) <= MaxProgramItems
  /\ \A p \in BagToSet(ps) : \A i \in 1..Len(p.waypoints) :
        p.waypoints[i].t.value <= MaxTimelineMs

NextTimeline ==
  \/ RefreshBegin
  \/ \E files \in TimelineFiles : \E listed \in BOOLEAN : \E clocks \in {{1, 2}} :
        RefreshPrograms(files, listed, clocks)
  \/ \E stateActive \in {NoProgram, <<"program", 2>>} : RefreshState(stateActive)
  \/ \E clock \in {1, 2} : \E ran \in BOOLEAN :
        CreateProgram(clock, ran) /\ TimelineBounded(programs')
  \/ \E programId \in {NoProgram, <<"program", 1>>, <<"program", 2>>} : SelectProgram(programId)
  \/ \E angles \in {defaultAngles} :
        \E gap \in {Num(DEFAULT_SEGMENT_MS), Num(-200), NaN, Infinity} :
          \E override \in {NoProgram} \cup TimelineEdited : \E clocks \in {{1}, {1, 2}} :
            AppendWaypointFromAngles(angles, gap, override, clocks) /\ TimelineBounded(programs')
  \/ \E programId \in TimelineEdited : \E id \in TimelineWaypointIds :
        DeleteWaypoint(programId, id)
  \/ \E programId \in TimelineEdited : \E durations \in {<<Num(0), Num(2000)>>, <<NaN, Num(-1)>>} :
        UpdateDurations(programId, durations)
  \/ \E programId \in TimelineEdited : \E id \in TimelineWaypointIds :
        \E direction \in {"up", "down"} : MoveWaypoint(programId, id, direction)
  \/ \E programId \in TimelineEdited : \E id \in TimelineWaypointIds :
        \E clocks \in {{1}} : \E randoms \in {{7}} :
          DuplicateWaypoint(programId, id, clocks, randoms) /\ TimelineBounded(programs')

\* The ProgramsProvider is the same under both controllers: one is looked at.
InitTimeline == Init /\ variant = "smooth"

SpecTimeline == InitTimeline /\ [][NextTimeline]_vars

\* --- start with a saved settings document ------------------------------------------
\* the document an earlier session saved
SavedDocument ==
  [type |-> "document",
   jointConfigs |-> [defaultConfigs EXCEPT !["base"] = [min |-> 10000, max |-> 170000, home |-> 80000]],
   controlTiles |-> defaultTiles,
   settings |-> [defaultSettings EXCEPT !.wsAddress = "ws://a", !.smoothingFactor = 50]]

InitStored == Boot(SavedDocument)

NextPersist ==
  \/ LoadInfo
  \/ LoadRead
  \/ PersistTimer
  \/ \E in \in {<<"base", 88000>>, <<"base", 5000>>} : UpdateJoint(in[1], in[2])
  \/ \E s \in DOMAIN sockets : SocketOpen(s)
  \/ \E s \in DOMAIN sockets : SocketClose(s)
  \/ \E t \in timers : ReconnectTimer(t) /\ Len(sockets') <= MaxPersistSockets
  \/ \E dt \in SendTimeSteps : Elapse(dt)
  \/ AppBackground
  \/ ClearSavedSettings /\ clearPhase'.getInfo + clearPhase'.delete <= MaxClears
  \/ ClearInfo
  \/ ClearDelete
  \/ \E in \in {<<"tile-base", "up">>, <<"tile-gyro", "up">>, <<"tile-none", "down">>} :
        controlTiles = defaultTiles /\ ReorderTile(in[1], in[2])
  \/ controlTiles = defaultTiles /\ RemapTile("tile-gyro", "armA")

SpecPersist == InitStored /\ [][NextPersist]_vars

\* --- the start alone ------------------------------------------------------------------
\* The load effect, the debounced save and the transport events that follow
\* the loaded address, with no call from the user interface.  Nothing is sent,
\* so the passing of time and the smoothing ticks change nothing.
NextStart ==
  \/ LoadInfo
  \/ LoadRead
  \/ PersistTimer
  \/ \E s \in DOMAIN sockets : SocketOpen(s)
  \/ \E s \in DOMAIN sockets : SocketClose(s)
  \/ \E t \in timers : ReconnectTimer(t) /\ Len(sockets') <= MaxPersistSockets
  \/ AppBackground

SpecStart == InitStored /\ [][NextStart]_vars

\* --- a movement that ends --------------------------------------------------------
\* Two targets are entered, each below the one before, and then none.
SettleInput ==
  \E in \in {<<"base", 88000>>, <<"base", 86000>>} :
    /\ in[2] < jointAngles[in[1]]
    /\ UpdateJoint(in[1], in[2])

SettleClock == \E dt \in SendTimeSteps : Elapse(dt)

NextSettle ==
  \/ UpdateSettings([wsAddress |-> "ws://a"]) /\ Len(sockets') <= MaxSettleSockets
  \/ \E s \in DOMAIN sockets : SocketOpen(s)
  \/ SettleInput
  \/ SmoothTick
  \/ SettleClock

\* the smoothing interval keeps firing and time keeps passing
SpecSettle ==
  Init /\ [][NextSettle]_vars /\ WF_vars(SmoothTick) /\ WF_vars(SettleClock)

\* --- smoothing loop ------------------------------------------------------------
SmoothJointInputs == {<<"base", 94000>>, <<"base", 90000>>}
SmoothSettingsInputs == {[smoothingFactor |-> 50], [smoothingFactor |-> 100],
                         [smoothingEnabled |-> FALSE]}
SmoothConfigInputs == {<<"base", [home |-> 90004]>>}

NextSmooth ==
  \/ \E in \in SmoothJointInputs : UpdateJoint(in[1], in[2])
  \/ \E next \in SmoothSettingsInputs : UpdateSettings(next)
  \/ \E in \in SmoothConfigInputs : SetJointConfig(in[1], in[2])
  \/ HomeAll
  \/ SmoothTick
  \/ EmergencyStop
  \/ ResumeAfterStop

SpecSmooth == Init /\ [][NextSmooth]_vars

\* --- callbacks that outlive the render that created them -----------------------
ClosureAddresses == {"ws://a", "ws://b"}

NextClosure ==
  \/ \E a \in ClosureAddresses : UpdateSettings([wsAddress |-> a]) /\ Len(sockets') <= MaxClosureSockets
  \/ \E s \in DOMAIN sockets : SocketOpen(s)
  \/ \E s \in DOMAIN sockets : SocketClose(s)
  \/ \E t \in timers : ReconnectTimer(t) /\ Len(sockets') <= MaxClosureSockets
  \/ HomeAll
  \/ HomeFrame
  \/ \E dt \in TimeSteps : Elapse(dt)

SpecClosure == Init /\ [][NextClosure]_vars

\* =====================================================================
\* Claims
\* =====================================================================
HeldOpen == socketRef # NoSocket /\ sockets[socketRef].readyState = "OPEN"

\* C1: while the interlock is stopped no pose message is written to the
\* transport, whichever callback runs (updateJoint, goToPose, a homing frame,
\* a gyro sample, a smoothing tick), also one created before the stop.
C1_NoPoseWhileStopped == isEmergencyStoppedRef => Poses(sent) = {}

\* C1 witness: a direct updateJoint ran while stopped, on an open connection
\* with the throttle interval elapsed, and wrote nothing.
C1_Witness ==
  /\ isEmergencyStoppedRef
  /\ variant = "direct"
  /\ last.op = "updateJoint"
  /\ connectionStatus = "connected"
  /\ HeldOpen
  /\ sinceLastSend >= SEND_INTERVAL
  /\ sent = <<>>

\* C2 (as claimed): resumeAfterStop called while the controller holds a
\* transport and reports connected writes exactly one pose message, carrying
\* the current jointAngles, and (smooth) leaves desired = smoothed = jointAngles.
C2_ResumeWritesCurrentPose ==
  (last.op = "resumeAfterStop" /\ last.wasStopped /\ last.held) =>
     /\ Len(sent) = 1
     /\ sent[1].type = "pose"
     /\ sent[1].angles = jointAngles
     /\ variant = "smooth" =>
          desiredAnglesRef = jointAngles /\ smoothedAnglesRef = jointAngles

\* C3 (as claimed): emergencyStop called while connected writes the
\* {emergencyStop:true} message, disables the gyro and stops the interlock; an
\* updateJoint that follows changes the joint's angle and writes nothing.
C3_StopScenario ==
  /\ (last.op = "emergencyStop" /\ last.held) =>
        /\ Len(sent) = 1
        /\ sent[1].type = "emergencyStop"
        /\ ~settings.gyroEnabled
        /\ isEmergencyStoppedRef
  /\ (last.op = "updateJoint" /\ isEmergencyStoppedRef) =>
        /\ sent = <<>>
        /\ jointAngles[last.joint] \in limitAngle(last.angle, jointConfigs[last.joint])

\* C4 (as claimed): every pose written to the transport has each of the six
\* angles within that joint's currently configured [min,max], also when
\* setJointConfig changed the bounds after the target was requested.
C4_PosesWithinBounds ==
  \A i \in Poses(sent) : \A j \in JOINTS :
    /\ jointConfigs[j].min <= sent[i].angles[j]
    /\ sent[i].angles[j] <= jointConfigs[j].max

\* --- the store's operations ---------------------------------------------------
ConfigOK(c) == c.min <= c.max /\ c.min <= c.home /\ c.home <= c.max

\* C5: after any sequence of setJointConfig calls every joint's config has
\* min <= max and min <= home <= max, and a call that supplies min > max
\* stores the two swapped.
C5_ConfigNormalized ==
  /\ \A j \in JOINTS : ConfigOK(jointConfigs[j])
  /\ (/\ last.op = "setJointConfig"
      /\ {"min", "max"} \subseteq DOMAIN last.config
      /\ last.config.min > last.config.max) =>
        /\ jointConfigs[last.joint].min = last.config.max
        /\ jointConfigs[last.joint].max = last.config.min

\* C5 witness: base was given min = 120 > max = 60 and holds [60, 120].
C5_Witness ==
  /\ last.op = "setJointConfig"
  /\ last.config = [min |-> 120000, max |-> 60000]
  /\ jointConfigs[last.joint].min = 60000
  /\ jointConfigs[last.joint].max = 120000

\* C6: after updateJoint(j, angle) the angle of j (UI state, and the desired
\* target of the smoothing controller) is round1(clamp(angle, min(j), max(j))),
\* a multiple of 0.1 nearest to the clamped angle, and no other joint's angle
\* changed.
C6_UpdateJoint ==
  [][last'.op = "updateJoint" =>
       LET j == last'.joint
           clamped == clamp(last'.angle, jointConfigs[j].min, jointConfigs[j].max)
       IN /\ jointAngles'[j] % 100 = 0
          /\ 2 * Abs(jointAngles'[j] - clamped) <= 100
          /\ variant = "smooth" => desiredAnglesRef'[j] = jointAngles'[j]
          /\ \A k \in JOINTS \ {j} :
               /\ jointAngles'[k] = jointAngles[k]
               /\ desiredAnglesRef'[k] = desiredAnglesRef[k]]_vars

\* C6 witness: updateJoint(base, 90.06) left base at 90.1 while armA stands
\* off its home (an earlier update, untouched).
C6_Witness ==
  /\ last.op = "updateJoint"
  /\ last.joint = "base"
  /\ last.angle = 90060
  /\ jointAngles["base"] = 90100
  /\ jointAngles["armA"] = 20000

PriorDesired == IF variant = "smooth" THEN desiredAnglesRef ELSE jointAngles

\* C7 (as claimed): goToPose sets every joint to the provided value clamped
\* into [min,max] when it is finite and to the prior desired value (clamped)
\* otherwise, all six at once; a pose it transmits is that whole pose.
C7_GoToPoseClamps ==
  [][last'.op = "goToPose" =>
       LET expected == [j \in JOINTS |->
                          clamp(IF last'.pose[j].finite THEN last'.pose[j].value
                                ELSE PriorDesired[j],
                                jointConfigs[j].min, jointConfigs[j].max)]
       IN /\ jointAngles' = expected
          /\ variant = "smooth" => desiredAnglesRef' = expected
          /\ \A i \in Poses(sent') : sent'[i].angles = expected]_vars

\* C7 (amended): as above, each value also rounded to one decimal (a multiple
\* of 0.1 nearest to the clamped value).
C7_GoToPoseClampsAndRounds ==
  [][last'.op = "goToPose" =>
       LET clamped == [j \in JOINTS |->
                         clamp(IF last'.pose[j].finite THEN last'.pose[j].value
                               ELSE PriorDesired[j],
                               jointConfigs[j].min, jointConfigs[j].max)]
       IN /\ \A j \in JOINTS :
               /\ jointAngles'[j] % 100 = 0
               /\ 2 * Abs(jointAngles'[j] - clamped[j]) <= 100
          /\ variant = "smooth" => desiredAnglesRef' = jointAngles'
          /\ \A i \in Poses(sent') : sent'[i].angles = jointAngles']_vars

\* C7 witness: goToPose({base: 999}) with base in [0,180] gave base = 180 and
\* left armA at the 20 degrees requested before.
C7_Witness ==
  /\ last.op = "goToPose"
  /\ last.pose = PartialPose([base |-> 999000])
  /\ jointConfigs["base"] = defaultConfigs["base"]
  /\ jointAngles["base"] = 180000
  /\ jointAngles["armA"] = 20000
  /\ variant = "smooth" => desiredAnglesRef["armA"] = 20000

\* --- reconnection -------------------------------------------------------------
\* the delay sequence the specification lists, indexed by the number of closes
\* since the attempt counter was 0
ListedDelay(k) ==
  IF k = 0 THEN 1000
  ELSE IF k = 1 THEN 2000
  ELSE IF k = 2 THEN 4000
  ELSE IF k = 3 THEN 8000
  ELSE 10000

Scheduled(sock, ts) == {t \in ts : t.id = sock}

\* C8: a transport close that schedules a retry is the (k+1)-th close since
\* the attempt counter was 0, k being the counter before the close; it raises
\* the counter to k+1 and schedules the retry after min(1000 * 2^k, 10000) ms:
\* 1000, 2000, 4000, 8000, 10000, 10000, ...
C8_BackoffDelays ==
  [][(last'.op = "close" /\ shouldReconnectRef) =>
       /\ reconnectAttempts' = reconnectAttempts + 1
       /\ Scheduled(last'.sock, timers') # {}
       /\ \A t \in Scheduled(last'.sock, timers') :
            t.delay = ListedDelay(reconnectAttempts)]_vars

\* C8 witness: the sixth close in a row scheduled its retry 10000 ms later.
C8_Witness ==
  /\ last.op = "close"
  /\ reconnectAttempts = 6
  /\ \E t \in timers : t.id = last.sock /\ t.delay = 10000

\* C9: entering a valid address sets status connecting; the open of a transport
\* sets status connected and the attempt counter to 0; when the transport just
\* opened then closes, status is reconnecting, the counter is 1 and exactly one
\* retry is pending, 1000 ms later.
C9_ConnectOpenClose ==
  [][/\ (/\ last'.op = "updateSettings"
         /\ last'.next.wsAddress # settings.wsAddress
         /\ ValidScheme(last'.next.wsAddress)) => connectionStatus' = "connecting"
     /\ last'.op = "open" => connectionStatus' = "connected" /\ reconnectAttempts' = 0
     /\ (/\ last.op = "open"
         /\ last'.op = "close"
         /\ last'.sock = last.sock
         /\ settings.wsAddress # "") =>
           /\ connectionStatus' = "reconnecting"
           /\ reconnectAttempts' = 1
           /\ Cardinality(timers') = 1
           /\ \A t \in timers' : t.delay = 1000]_vars

\* C9 witness: the transport of the entered address opened, then closed, and
\* its retry is pending.
C9_Witness ==
  /\ last.op = "close"
  /\ last.wasOpen
  /\ sockets[last.sock].url = settings.wsAddress
  /\ connectionStatus = "reconnecting"
  /\ reconnectAttempts = 1
  /\ timers = {[id |-> last.sock, url |-> settings.wsAddress, delay |-> 1000]}

\* --- smoothing ----------------------------------------------------------------
\* C10 (as claimed): one tick of the smoothing loop, the interlock not being
\* stopped, takes each joint's smoothed value S to D when |D - S| < 0.01, to
\* S + (D - S) * f when smoothing is enabled with f < 1, and to D otherwise.
C10_TickIsExactEMA ==
  [][(last'.op = "tick" /\ ~isEmergencyStoppedRef) =>
       \A j \in JOINTS :
         LET S == smoothedAnglesRef[j]
             D == desiredAnglesRef[j]
             f == settings.smoothingFactor
         IN IF Abs(D - S) < 10 THEN smoothedAnglesRef'[j] = D
            ELSE IF settings.smoothingEnabled /\ f < 100
                 THEN 100 * smoothedAnglesRef'[j] = 100 * S + (D - S) * f
                 ELSE smoothedAnglesRef'[j] = D]_vars

\* C11 (as claimed): with smoothing enabled, f in (0,1), the interlock not
\* stopped and the target D held fixed, finitely many ticks bring every joint's
\* smoothed value within 0.01 of D.  The tick is a function of (S, D, f), so
\* with D fixed this holds exactly when every tick taken at |D - S| >= 0.01
\* leaves the joint strictly closer to D; a tick that does not is repeated
\* forever.  (Steps whose sum lies halfway between two tenths are left out:
\* their outcome depends on the double computed for the sum.)
C11_TickApproachesTarget ==
  [][(/\ last'.op = "tick"
      /\ ~isEmergencyStoppedRef
      /\ settings.smoothingEnabled
      /\ settings.smoothingFactor > 0
      /\ settings.smoothingFactor < 100) =>
       \A j \in JOINTS :
         LET S == smoothedAnglesRef[j]
             D == desiredAnglesRef[j]
         IN (/\ Abs(D - S) >= 10
             /\ Cardinality(smoothStep(S, D, TRUE, settings.smoothingFactor)) = 1) =>
              Abs(D - smoothedAnglesRef'[j]) < Abs(D - S)]_vars

\* --- connection manager ---------------------------------------------------------
Rejected(addr) == addr # "" /\ ~ValidScheme(addr)

\* C12 (as claimed): while the address is a non-empty string that begins with
\* neither ws:// nor wss://, the status is error, no transport exists for that
\* address and no reconnect timer is pending for it.
C12_RejectedAddress ==
  Rejected(settings.wsAddress) =>
    /\ connectionStatus = "error"
    /\ \A s \in DOMAIN sockets : sockets[s].url # settings.wsAddress
    /\ \A t \in timers : t.url # settings.wsAddress

Live(s) == sockets[s].readyState \in {"CONNECTING", "OPEN"}

\* C13 (as claimed): once the address is cleared, and for as long as it stays
\* empty, shouldReconnect is false, no transport is live, no reconnect timer is
\* pending, the attempt counter is 0 and the status is disconnected (so no late
\* event changed it or opened a transport); while an address is set the status
\* is never disconnected.
C13_ClearedAddress ==
  /\ settings.wsAddress = "" =>
       /\ ~shouldReconnectRef
       /\ \A s \in DOMAIN sockets : ~Live(s)
       /\ timers = {}
       /\ reconnectAttempts = 0
       /\ connectionStatus = "disconnected"
  /\ settings.wsAddress # "" => connectionStatus # "disconnected"

\* C14 (as claimed): a pose message is written to the transport only when the
\* connection status is connected, whichever callback issues the send, also a
\* homing-animation or gyro callback created before the status last changed.
C14_PoseOnlyWhenConnected == Poses(sent) # {} => connectionStatus = "connected"

\* --- program dispatch -------------------------------------------------------------
\* C15: sendProgramRun returns false and writes nothing when the status is not
\* connected or no transport is held; it returns true exactly when the
\* {type:"program"} message was written; when the write throws it returns
\* false and the status is error.  (The call always returns: the catch lets no
\* exception out.)
C15_ProgramRunResult ==
  last.op = "sendProgramRun" =>
    /\ last.ok <=> (Len(sent) = 1 /\ sent[1].type = "program")
    /\ ~last.ok => sent = <<>>
    /\ ~last.held => ~last.ok
    /\ (last.held /\ ~last.ok) => connectionStatus = "error"

\* C15 witness: a dispatch on an open transport returned true and wrote the
\* program message.
C15_Witness ==
  /\ last.op = "sendProgramRun"
  /\ last.ok
  /\ sent = <<[type |-> "program", sock |-> socketRef]>>
  /\ sockets[socketRef].readyState = "OPEN"

\* --- send throttle ----------------------------------------------------------------
\* C16 (as claimed): whatever path writes a pose message (smoothing tick,
\* updateJoint, goToPose, homing frame, gyro sample, resume), the previous pose
\* message was written at least the minimum inter-send interval before.
C16_PoseSpacing ==
  [][Poses(sent') # {} => sinceLastPose >= SEND_INTERVAL]_vars

\* --- gyro input is force-disabled ---------------------------------------------------
\* an explicit request of the user to turn gyro input on
GyroRequested(op) ==
  op.op = "updateSettings" /\ "gyroEnabled" \in DOMAIN op.next /\ op.next.gyroEnabled

\* C17 (as claimed): in either controller gyroEnabled is false after
\* emergencyStop and after a program was dispatched (sendProgramRun wrote the
\* program message), and no step turns it on again (resume, transport events,
\* timers) except an updateSettings call that asks for gyroEnabled = true.
C17_GyroForcedOff ==
  [][/\ last'.op = "emergencyStop" => ~settings'.gyroEnabled
     /\ (last'.op = "sendProgramRun" /\ last'.ok) => ~settings'.gyroEnabled
     /\ (~settings.gyroEnabled /\ settings'.gyroEnabled) => GyroRequested(last')]_vars

\* --- program dispatch under the interlock -------------------------------------------
\* C18 (as claimed): while the interlock is stopped, sendProgramRun writes no
\* message to the transport, like updateJoint and goToPose.
C18_NoProgramWhileStopped ==
  (isEmergencyStoppedRef /\ last.op = "sendProgramRun") => sent = <<>>

\* --- events of replaced transports ---------------------------------------------------
\* socket s was created for an address that is no longer the configured one,
\* or is not the transport the controller holds
Stale(s) == sockets[s].url # settings.wsAddress \/ s # socketRef

\* C19 (as claimed): an open or close event of a transport created for a
\* previous address (or of any transport other than the held one) changes
\* neither the status, nor the attempt counter, nor the held reference, and
\* schedules no retry; and no timer opens a new transport to a previous address.
C19_StaleEventsIgnored ==
  [][/\ (last'.op \in {"open", "close"} /\ Stale(last'.sock)) =>
          /\ connectionStatus' = connectionStatus
          /\ reconnectAttempts' = reconnectAttempts
          /\ socketRef' = socketRef
          /\ timers' \subseteq timers
     /\ (last'.op = "reconnectTimer" /\ last'.timer.url # settings.wsAddress) =>
          sockets' = sockets]_vars

\* --- reconnection without a cap --------------------------------------------------------
\* C20: with the address unchanged, every unexpected close schedules a retry
\* whatever the number of attempts so far, every retry timer opens a new
\* transport, and once the peer stops refusing, the status becomes connected
\* and the attempt counter is 0 again.
C20_RetriesUntilConnected ==
  /\ [][(last'.op = "close" /\ shouldReconnectRef) =>
          /\ connectionStatus' = "reconnecting"
          /\ reconnectAttempts' = reconnectAttempts + 1
          /\ \E t \in timers' : t.id = last'.sock /\ t.url = settings.wsAddress]_vars
  /\ [][last'.op = "reconnectTimer" =>
          /\ Len(sockets') = Len(sockets) + 1
          /\ sockets'[socketRef'] = [url |-> settings.wsAddress, readyState |-> "CONNECTING"]]_vars
  /\ (connectionStatus = "reconnecting") ~>
        (connectionStatus = "connected" /\ reconnectAttempts = 0)

\* C20 witness: the peer refused or dropped MaxRefused transports in a row,
\* the next retry opened, the status is connected and the counter is 0.
C20_Witness ==
  /\ last.op = "open"
  /\ last.sock = MaxRefused + 1
  /\ \A s \in 1..MaxRefused : sockets[s].readyState = "CLOSED"
  /\ connectionStatus = "connected"
  /\ reconnectAttempts = 0

\* --- the reconnect timer ---------------------------------------------------------------
\* C21: at most one reconnect timer is pending, and it is the one the
\* controller holds in reconnectTimeoutRef; a step that changes or clears the
\* address leaves no timer pending, and only a pending timer fires.
C21_OneTimer ==
  /\ [](/\ Cardinality(timers) <= 1
        /\ \A t \in timers : t.id = reconnectTimeoutRef)
  /\ [][settings'.wsAddress # settings.wsAddress => timers' = {}]_vars
  /\ [][last'.op = "reconnectTimer" => (last'.timer \in timers /\ timers' = {})]_vars

\* C21 witness: a transport closed while the retry timer of another close was
\* still pending (two closes, no retry in between); one timer is pending.
C21_Witness ==
  /\ last.op = "close"
  /\ reconnectAttempts = 2
  /\ Len(sockets) = 2
  /\ Cardinality(timers) = 1

\* --- one transport at a time ------------------------------------------------------------
\* C22 (as claimed): a step that changes the address leaves no transport that
\* existed before it connecting or open, whoever created it (the address
\* effect or a reconnect retry); and at any time at most one transport is
\* connecting or open.
C22_OneLiveTransport ==
  /\ [][settings'.wsAddress # settings.wsAddress =>
          \A s \in DOMAIN sockets : sockets'[s].readyState \notin {"CONNECTING", "OPEN"}]_vars
  /\ [](Cardinality({s \in DOMAIN sockets : Live(s)}) <= 1)

\* --- the stop snaps the targets -------------------------------------------------------
\* the joint angles of the pose messages among msgs
PoseAngles(msgs) == {msgs[i].angles : i \in Poses(msgs)}

\* C23 (as claimed, smoothing controller): when emergencyStop follows a step
\* that transmitted a pose, it sets the desired and the smoothed target to that
\* pose; and a resumeAfterStop that directly follows the stop (no input in
\* between) transmits the pose the targets were snapped to.
C23_StopSnapsToActualPose ==
  /\ [][(variant = "smooth" /\ last'.op = "emergencyStop") =>
          \A a \in PoseAngles(sent) :
             desiredAnglesRef' = a /\ smoothedAnglesRef' = a]_vars
  /\ [][(variant = "smooth" /\ last.op = "emergencyStop" /\ last'.op = "resumeAfterStop") =>
          \A a \in PoseAngles(sent') : a = smoothedAnglesRef]_vars

\* --- the stop itself never fails ------------------------------------------------------
\* C24: emergencyStop ends with the interlock stopped and gyroEnabled false,
\* whether a transport is held with status connected or not (then nothing is
\* written) and also when writing the stop message throws; the connection
\* status is the one before the call.
C24_StopAlwaysStops ==
  /\ [](last.op = "emergencyStop" =>
          /\ isEmergencyStoppedRef
          /\ ~settings.gyroEnabled
          /\ (~last.held \/ last.threw) => sent = <<>>)
  /\ [][last'.op = "emergencyStop" => connectionStatus' = connectionStatus]_vars

\* C24 witness: the stop message was written to a transport that is still
\* connecting, the write threw; the interlock is stopped, gyro input is off
\* and the status is still connected.
C24_Witness ==
  /\ last.op = "emergencyStop"
  /\ last.held
  /\ last.threw
  /\ isEmergencyStoppedRef
  /\ ~settings.gyroEnabled
  /\ connectionStatus = "connected"

\* --- a failed pose write ------------------------------------------------------------------
\* C25: a pose write that throws (in sendPayload or resumeAfterStop) leaves
\* the status error, and from then on no pose is written to a transport until
\* the status has become connected again.
C25_FailedWriteWithholds ==
  /\ [][(poseWriteFailed' /\ ~poseWriteFailed) =>
          (connectionStatus' = "error" /\ sent' = <<>>)]_vars
  /\ [][poseWriteFailed => PoseAngles(sent') = {}]_vars
  /\ [](poseWriteFailed => connectionStatus # "connected")

\* C25 witness: after a pose write threw, a later resumeAfterStop found the
\* status not connected and wrote nothing.
C25_Witness ==
  /\ poseWriteFailed
  /\ last.op = "resumeAfterStop"
  /\ ~last.held
  /\ socketRef # NoSocket
  /\ sent = <<>>

\* --- recovery from the error status --------------------------------------------------------
\* C26 (as claimed): whenever the status is error while a valid address is
\* set (a pose write threw, or opening the transport threw), the status
\* eventually becomes connected again.
C26_ErrorRecovers ==
  (connectionStatus = "error" /\ ValidScheme(settings.wsAddress)) ~>
     (connectionStatus = "connected")

\* --- the send decision of the smoothing tick --------------------------------------------
\* C27 (as claimed): a smoothing tick writes a pose only if some joint of the
\* newly computed smoothed pose differs by more than the epsilon from the pose
\* last written to the transport; in particular it never writes the pose that
\* was written last once more.
C27_TickSendsOnlyChanges ==
  [][(last'.op = "tick" /\ PoseAngles(sent') # {} /\ lastPose # NoPose) =>
       \E j \in JOINTS : Abs(smoothedAnglesRef'[j] - lastPose[j]) > SNAP_EPSILON]_vars

\* --- the end of a homing animation -------------------------------------------------------
\* C28 (as claimed): the homing frame that runs once 1000 ms have elapsed
\* since homeAll sets every joint exactly to its configured home and clears
\* the animation timer; a homing frame runs only while a timer is set, and
\* homeAll replaces a running animation by one that starts from the current
\* pose at elapsed time 0.
C28_HomingEndsAtHome ==
  /\ [][(last'.op = "homeFrame" /\ homeAnimationRef.elapsed >= HOME_DURATION) =>
          /\ \A j \in JOINTS : jointAngles'[j] = jointConfigs'[j].home
          /\ homeAnimationRef' = NoPose]_vars
  /\ [][last'.op = "homeFrame" => homeAnimationRef # NoPose]_vars
  /\ [][last'.op = "homeAll" =>
          /\ homeAnimationRef' # NoPose
          /\ homeAnimationRef'.elapsed = 0
          /\ homeAnimationRef'.startAngles = jointAngles]_vars

\* --- what is transmitted during a homing animation -----------------------------------
\* C29 (as claimed): while a homing animation runs and no other target has
\* been entered since it started, every pose that a homing frame or a
\* smoothing tick writes to the transport is one of the ease-out-cubic frames
\* of that animation, and the smoothing tick that follows a homing frame
\* writes that frame as it is, without filtering it.
HomingUndisturbed ==
  /\ homeAnimationRef # NoPose
  /\ variant = "smooth" => desiredAnglesRef = homeAnimationRef.targetAngles

C29_HomingFramesUnfiltered ==
  /\ [][(HomingUndisturbed /\ last'.op \in {"homeFrame", "tick"}) =>
          \A pose \in PoseAngles(sent') :
            \E e \in 0..HOME_DURATION :
              \A j \in JOINTS :
                pose[j] \in homeFrame(homeAnimationRef.startAngles[j],
                                      homeAnimationRef.targetAngles[j], e)]_vars
  /\ [][(HomingUndisturbed /\ last.op = "homeFrame" /\ last'.op = "tick") =>
          PoseAngles(sent') \subseteq {smoothedAnglesRef}]_vars

\* --- the current angles after a config change ----------------------------------------
\* C30: when setJointConfig has taken effect (the merged config is stored and
\* the reclamp effect has run), every joint's current angle lies within its
\* new [min,max]: an angle that was within the new bounds is the one it was,
\* an angle below the new min is the new min, one above the new max is the
\* new max.
C30_ReclampToNearestBound ==
  [][last'.op = "setJointConfig" =>
       \A j \in JOINTS :
         /\ jointConfigs'[j].min <= jointAngles'[j]
         /\ jointAngles'[j] <= jointConfigs'[j].max
         /\ jointAngles'[j] = clamp(jointAngles[j], jointConfigs'[j].min, jointConfigs'[j].max)]_vars

\* C30 witness: setJointConfig('base', {min: 200}) made base's range [180,200];
\* base, which was below it, is now at the new min, while armA, moved to 20
\* before, kept its angle.
C30_Witness ==
  /\ last.op = "setJointConfig"
  /\ last.joint = "base"
  /\ last.config = [min |-> 200000]
  /\ jointConfigs["base"].min = 180000
  /\ jointAngles["base"] = 180000
  /\ jointAngles["armA"] = 20000

\* --- the effect of a gyro sample ------------------------------------------------------
\* C31 (as claimed): a gyro sample changes the angle (UI state and desired
\* target) of no joint other than the mapped pitch and roll joints, each
\* angle it sets lies within the joint's [min,max], and it writes nothing to
\* the transport while the interlock is stopped or the throttle interval has
\* not elapsed.
C31_GyroSampleEffect ==
  [][last'.op = "gyroSample" =>
       LET mapped == {settings.gyroPitchJoint, settings.gyroRollJoint}
       IN /\ \A j \in JOINTS \ mapped :
               /\ jointAngles'[j] = jointAngles[j]
               /\ desiredAnglesRef'[j] = desiredAnglesRef[j]
          /\ \A j \in mapped :
               /\ jointConfigs[j].min <= jointAngles'[j]
               /\ jointAngles'[j] <= jointConfigs[j].max
               /\ variant = "smooth" =>
                    /\ jointConfigs[j].min <= desiredAnglesRef'[j]
                    /\ desiredAnglesRef'[j] <= jointConfigs[j].max
          /\ (isEmergencyStoppedRef \/ sinceLastSend < SEND_INTERVAL) => sent' = <<>>]_vars

\* --- the target angle of a gyro sample --------------------------------------------------
\* The angles of one decimal nearest to
\*   clamp(home + clamp(r/90, -1, 1) * halfRange * (sensitivity/100), min, max)
\* for a tilt of r degrees, with halfRange = twiceHalf / 2.
GyroTargetsAsSpecified(cfg, r, sensitivity, twiceHalf) ==
  LET den == GYRO_FULL_TILT * 100 * 2
      off == clamp(r, -GYRO_FULL_TILT, GYRO_FULL_TILT) * twiceHalf * sensitivity
      whole == cfg.home + (off \div den)
      rest == off % den
      below == whole < cfg.min
      above == whole >= cfg.max
      b == IF below THEN cfg.min ELSE IF above THEN cfg.max ELSE whole
      f == IF below \/ above THEN 0 ELSE rest
  IN {v \in {100 * k : k \in ((b \div 100) - 1)..((b \div 100) + 2)} :
        2 * Abs((v - b) * den - f) <= 100 * den}

\* C32 (as claimed): the angle a gyro sample sets on a mapped joint is, to one
\* decimal, clamp(home + clamp(r/90, -1, 1) * halfRange * (sensitivity/100),
\* min, max) for the tilt r relative to the calibration, with halfRange either
\* (max - min)/2 or min(max - home, home - min); for r = 0 it is the home angle.
C32_GyroTarget ==
  [][(last'.op = "gyroSample" /\ settings.gyroPitchJoint # settings.gyroRollJoint) =>
       \A axis \in {"pitch", "roll"} :
         LET j == IF axis = "pitch" THEN settings.gyroPitchJoint ELSE settings.gyroRollJoint
             cfg == jointConfigs[j]
             r == last'[axis] - gyroCalibration[axis]
         IN /\ jointAngles'[j] \in
                 GyroTargetsAsSpecified(cfg, r, settings.gyroScale, cfg.max - cfg.min)
                 \cup GyroTargetsAsSpecified(cfg, r, settings.gyroScale,
                                             2 * Min2(cfg.max - cfg.home, cfg.home - cfg.min))
            /\ r = 0 => jointAngles'[j] \in GyroTargetsAsSpecified(cfg, 0, settings.gyroScale, 0)]_vars

\* --- shutdown ----------------------------------------------------------------------------
\* C33 (as claimed): once the provider is unmounted no timer is pending
\* (reconnect timer, homing interval, debounced save; the smoothing interval
\* runs only while mounted) and no transport is connecting or open, also one
\* that a reconnect retry created.
C33_CleanShutdown ==
  ~mounted =>
    /\ timers = {}
    /\ reconnectTimeoutRef = 0
    /\ homeAnimationRef = NoPose
    /\ ~persistTimer
    /\ \A s \in DOMAIN sockets : sockets[s].readyState \notin {"CONNECTING", "OPEN"}

\* --- the program timeline ------------------------------------------------------------------
\* wps[i].t >= 0, wps[i].t <= wps[i + 1].t, wps[0].t === 0 on numbers
TimelineOrdered(wps) ==
  /\ \A i \in 1..Len(wps) : wps[i].t # NaN /\ wps[i].t.value >= 0
  /\ \A i \in 1..(Len(wps) - 1) :
        /\ wps[i].t # NaN /\ wps[i + 1].t # NaN
        /\ Sub(wps[i].t, wps[i + 1].t).value <= 0
  /\ wps # <<>> => wps[1].t = Num(0)

\* C34 (as claimed): after loading the programs and after any sequence of
\* appendWaypointFromAngles, moveWaypoint, duplicateWaypoint, deleteWaypoint
\* and updateDurations, the waypoints of every program are in non-decreasing
\* order of t in array order, every t is >= 0 and the first waypoint has t = 0.
C34_TimelineOrdered == \A program \in BagToSet(programs) : TimelineOrdered(program.waypoints)

\* --- moving a waypoint --------------------------------------------------------------------
\* wps with the waypoint (id and pose) at position index exchanged with its
\* neighbour in the direction, each position keeping its time; wps itself when
\* it has no such neighbour or index is 0
MovedFrom(wps, index, direction) ==
  LET k == IF direction = "up" THEN index - 1 ELSE index
  IN IF k < 1 \/ k + 1 > Len(wps) THEN wps
     ELSE [i \in 1..Len(wps) |->
             IF i = k THEN [wps[k + 1] EXCEPT !.t = wps[k].t]
             ELSE IF i = k + 1 THEN [wps[k] EXCEPT !.t = wps[k + 1].t]
             ELSE wps[i]]

\* C40 (as claimed): moveWaypoint, called with an id, leaves the list of
\* timestamps (hence every segment duration and the total duration) as it was
\* and exchanges the waypoint the id finds, the first that has it (id and
\* pose), with the adjacent one in the direction; for the first waypoint moved
\* up and the last one moved down it changes nothing, as it does when no
\* waypoint has the id; a move up that changed the programs, followed by a
\* move down with the same id, restores the programs.
C40_MoveSwapsNeighbours ==
  /\ [][\A programId \in TimelineEdited : \A id \in TimelineWaypointIds :
          \A direction \in {"up", "down"} :
            (/\ last'.op = "moveWaypoint"
             /\ programs' \in MovedPrograms(programs, programId, id, direction))
              => programs' =
                   BagOfAll(LAMBDA program :
                              IF program.id # programId THEN program
                              ELSE [program EXCEPT !.waypoints =
                                      MovedFrom(@, IndexOfId(@, id), direction)],
                            programs)]_vars
  /\ [][\A programId \in TimelineEdited : \A id \in TimelineWaypointIds :
          (/\ last'.op = "moveWaypoint"
           /\ programs' # programs
           /\ programs' \in MovedPrograms(programs, programId, id, "up"))
            => MovedPrograms(programs', programId, id, "down") = {programs}]_vars

\* --- the end of a movement reaches the arm ----------------------------------------------
DesiredTarget == IF variant = "smooth" THEN desiredAnglesRef ELSE jointAngles

\* C35 (as claimed): while the controller is connected on an open transport,
\* not stopped and not homing, the pose last written to the transport
\* eventually equals the desired target.
C35_FinalPoseArrives ==
  (/\ connectionStatus = "connected" /\ HeldOpen
   /\ ~isEmergencyStoppedRef /\ homeAnimationRef = NoPose)
    ~> (lastPose = DesiredTarget)

\* --- the reported status and the held transport ------------------------------------------
\* C36 (as claimed): whenever the reported status is connected, the held
\* transport reference is non-null and refers to a transport that has opened
\* and has not closed.
C36_ConnectedMeansHeldOpen == connectionStatus = "connected" => HeldOpen

\* --- the displayed pose and the desired target --------------------------------------------
\* C37 (as claimed): in the smoothing controller, whenever no homing animation
\* is running, the UI-facing jointAngles equal the desired target for every
\* joint.
C37_DisplayedIsDesired ==
  (variant = "smooth" /\ homeAnimationRef = NoPose)
    => \A j \in JOINTS : jointAngles[j] = desiredAnglesRef[j]

\* --- the pose while stopped ------------------------------------------------------------------
\* steps that no user input causes: timer callbacks, the clock, transport
\* events, the completions of the load effect's storage calls, the app going
\* to the background (the completions of clearSavedSettings' storage calls
\* carry out a call the user made)
BackgroundOps ==
  {"homeFrame", "tick", "elapse", "open", "close", "reconnectTimer", "persistTimer",
   "loadInfo", "loadRead", "appBackground"}

\* C38 (as claimed): while the interlock is stopped, a step that is not a user
\* input changes neither jointAngles nor the desired and smoothed targets,
\* also when a homing animation was running when emergencyStop was called.
C38_StoppedPoseFrozen ==
  [][(isEmergencyStoppedRef /\ last'.op \in BackgroundOps)
       => UNCHANGED <<jointAngles, desiredAnglesRef, smoothedAnglesRef>>]_vars

\* --- the saved document and the first save ------------------------------------------------
\* C39 (as claimed): at a start with a saved document and no call from the
\* user interface, the document on disk is not overwritten before the load
\* effect has read it, and once the load and the debounced save have both
\* completed the in-memory settings and joint configs and the stored document
\* equal the saved values.
C39_LoadBeforeSave ==
  /\ loadPhase # "done" => storedDocument = SavedDocument
  /\ (loadPhase = "done" /\ ~persistTimer)
       => /\ storedDocument = SavedDocument
          /\ settings = SavedDocument.settings
          /\ jointConfigs = SavedDocument.jointConfigs

====
